---- MODULE Spec2Model ----
(***************************************************************************)
(* grape: request-parameter binding/validation (params.go) and struct      *)
(* presentation (entity).  Go values of type interface{} are modelled as   *)
(* tagged pairs; Go maps and slices are reference objects and live in a    *)
(* heap, so that aliasing between an input and an output is visible.       *)
(* A float64 is modelled by its number of tenths (59 is 5.9).              *)
(***************************************************************************)
EXTENDS Integers, Sequences, FiniteSets, TLC

VARIABLES heap,      \* the Go heap: a sequence of map and slice objects
          schema,    \* the *Params the calls are made on (its Fields)
          raw,       \* the caller's input map (a heap address)
          mode,      \* the mode string of the calls
          pc,        \* "idle", "loop" (inside BindAndValidate) or "mutated"
          idx,       \* number of schema fields the running call has examined
          out,       \* address of the running call's out map
          results,   \* what the finished calls returned, in call order
          ncalls,    \* how many times the caller binds the same input
          input,     \* the input as the caller built it (its tree), for reference
          obj,       \* the object handed to Present
          presenter, \* the *Entity handed to Present (its Fields)
          options    \* the variadic options of the Present call

bindVars == <<schema, raw, mode, ncalls, input>>
presVars == <<obj, presenter, options>>
vars == <<heap, pc, idx, out, results, bindVars, presVars>>

\* Bounds of the model.
MaxArrLen == 2   \* longest array in an input
MaxCalls == 2    \* calls made on one input when binding is repeated
MaxFields == 2   \* longest field list of a presenter
MaxKeys == 2     \* most keys of an input given to ToModel
MaxDecls == 2    \* Requires and Optional calls made on one schema
MaxSetters == 3  \* chained setter calls made on the handles of one schema

(***************************************************************************)
(* Values of type interface{}                                              *)
(***************************************************************************)
VNull == <<"null", 0>>
VStr(s) == <<"str", s>>
VFloat(t) == <<"float", t>>
VInt(n) == <<"int", n>>
VBool(b) == <<"bool", b>>
VRef(a) == <<"ref", a>>

Kind(v) == v[1]

\* Heap objects: <<"map", [key -> value]>> and <<"arr", <<value, ...>>>>.
MapObj(m) == <<"map", m>>
ArrObj(a) == <<"arr", a>>

IsMap(h, v) == Kind(v) = "ref" /\ h[v[2]][1] = "map"
IsArr(h, v) == Kind(v) = "ref" /\ h[v[2]][1] = "arr"

\* make(...) / a composite literal: a new object at the next free address.
New(h, o) == [h |-> Append(h, o), v |-> VRef(Len(h) + 1)]

\* m[k] = v on the map at address a.
MapSet(h, a, k, v) ==
  [h EXCEPT ![a] = MapObj([x \in (DOMAIN h[a][2]) \cup {k} |->
                           IF x = k THEN v ELSE h[a][2][x]])]

\* The keys a range loop visits, put in one fixed order.
KeyOrder ==
  <<"age", "city", "data", "email", "extra", "id", "is_active", "name", "profile",
    "score",
    "Active", "Addr", "Age", "City", "Meta", "Name", "Score", "Tags", "Zip",
    "home", "note",
    "user_id", "user_i_d", "userid", "xmlhttp_request", "xml_http_request", "ID", "i_d",
    "ByValue", "Form", "HQ", "Owner", "Refs", "work">>

KeySeq(S) == SelectSeq(KeyOrder, LAMBDA k : k \in S)

(***************************************************************************)
(* Trees: the structure of a value with the heap followed through, used to *)
(* build inputs and to compare values structurally.                        *)
(***************************************************************************)
RECURSIVE Tree(_, _)
Tree(h, v) ==
  CASE Kind(v) = "ref" ->
         LET o == h[v[2]] IN <<o[1], [k \in DOMAIN o[2] |-> Tree(h, o[2][k])]>>
    [] Kind(v) = "struct" -> <<"struct", [k \in DOMAIN v[2] |-> Tree(h, v[2][k])]>>
    [] Kind(v) = "ptr" /\ v[2] # 0 ->
         LET o == h[v[2]] IN <<"pstruct", [k \in DOMAIN o[2] |-> Tree(h, o[2][k])]>>
    [] OTHER -> v

\* Allocates the objects of a tree, children first; returns [h, v].  A
\* "map" or "arr" node becomes an object and a reference to it, a "pstruct"
\* node a struct object and a pointer to it, a "struct" node a struct value.
AllocKeys(t) ==
  IF t[1] = "arr" THEN [i \in 1..Len(t[2]) |-> i] ELSE KeySeq(DOMAIN t[2])

AllocFields(t, ks, vs) ==
  IF t[1] = "arr" THEN vs
  ELSE [k \in DOMAIN t[2] |-> vs[CHOOSE i \in 1..Len(ks) : ks[i] = k]]

AllocNode(kind, h, f) ==
  CASE kind = "struct" -> [h |-> h, v |-> <<"struct", f>>]
    [] kind = "pstruct" -> [h |-> Append(h, <<"struct", f>>), v |-> <<"ptr", Len(h) + 1>>]
    [] OTHER -> New(h, <<kind, f>>)

AllocDone(t, ks, r) == AllocNode(t[1], r.h, AllocFields(t, ks, r.vs))

RECURSIVE Alloc(_, _), AllocKids(_, _, _, _), AllocNext(_, _, _, _)
Alloc(h, t) ==
  IF t[1] \notin {"map", "arr", "struct", "pstruct"} THEN [h |-> h, v |-> t]
  ELSE AllocDone(t, AllocKeys(t), AllocKids(h, t[2], AllocKeys(t), <<>>))
AllocKids(h, f, ks, vs) ==
  IF Len(vs) = Len(ks) THEN [h |-> h, vs |-> vs]
  ELSE AllocNext(Alloc(h, f[ks[Len(vs) + 1]]), f, ks, vs)
AllocNext(r, f, ks, vs) == AllocKids(r.h, f, ks, Append(vs, r.v))

\* Addresses of the maps and slices reachable from a value.
RECURSIVE Reach(_, _)
Reach(h, v) ==
  IF Kind(v) # "ref" THEN {}
  ELSE {v[2]} \cup UNION {Reach(h, h[v[2]][2][k]) : k \in DOMAIN h[v[2]][2]}

(***************************************************************************)
(* Schemas (params.go).  A *Params is named by an id; "" is the nil        *)
(* pointer.  SchemaFields gives the Fields of the nested schemas the       *)
(* descriptors below point to.                                             *)
(***************************************************************************)
NilSchema == ""

Param(name, type, tag, on, sch, st) ==
  [Name |-> name, Type |-> type, Validate |-> tag, RequiredOn |-> on,
   Schema |-> sch, SliceType |-> st]

\* user:    Requires("name").On("create").String()
\*          Optional("age").Integer().Validate("min=3")
\*          Optional("profile").JSON().WithSchema(address)
\* address: Optional("city").String()
\* measure: Requires("name").On(" create ").DateTime().Validate("min=3")
\*          Optional("age").Float().Validate("min=3")
\*          Optional("profile").SliceOf(JSON).WithSchema(address)
\* flags:   Optional("name").Numeric().Validate("min=3")
\*          Requires("age").On("update").Boolean()
\*          Optional("profile").JSON()
\* ledger:  Optional("name").Date(), Optional("age").BigDecimal().Validate("min=3")
\*          Optional("profile").Time().Validate("min=3")
SchemaFields(id) ==
  CASE id = "user" ->
         <<Param("name", "string", "", <<"create">>, NilSchema, ""),
           Param("age", "integer", "min=3", <<>>, NilSchema, ""),
           Param("profile", "json", "", <<>>, "address", "")>>
    [] id = "address" ->
         <<Param("city", "string", "", <<>>, NilSchema, "")>>
    [] id = "measure" ->
         <<Param("name", "datetime", "min=3", <<" create ">>, NilSchema, ""),
           Param("age", "float", "min=3", <<>>, NilSchema, ""),
           Param("profile", "slice", "", <<>>, "address", "json")>>
    [] id = "flags" ->
         <<Param("name", "numeric", "min=3", <<>>, NilSchema, ""),
           Param("age", "boolean", "", <<"update">>, NilSchema, ""),
           Param("profile", "json", "", <<>>, NilSchema, "")>>
    [] id = "ledger" ->
         <<Param("name", "date", "", <<>>, NilSchema, ""),
           Param("age", "bigdecimal", "min=3", <<>>, NilSchema, ""),
           Param("profile", "time", "min=3", <<>>, NilSchema, "")>>
    [] OTHER -> <<>>

(***************************************************************************)
(* Library functions the engine calls                                      *)
(***************************************************************************)
\* strings.TrimSpace, on the strings used as required-on entries.
TrimSpace(s) ==
  CASE s = " create " -> "create"
    [] s = " update" -> "update"
    [] OTHER -> s

\* validate.Var(x, tag) of go-playground/validator for the tag "min=3":
\* a string needs at least 3 characters, a number must be at least 3.
\* TRUE when the rule is violated (Var returns an error).
RuleFails(v, tag) ==
  IF tag # "min=3" THEN FALSE
  ELSE CASE Kind(v) = "str" -> Len(v[2]) < 3
         [] Kind(v) = "int" -> v[2] < 3
         [] Kind(v) = "float" -> v[2] < 30
         [] OTHER -> FALSE

\* Mutant: rounds down instead of toward zero.
Trunc_Floor(t) == t \div 10

\* int(x) of a float64: the fraction is dropped, toward zero.
Trunc(t) == IF t >= 0 THEN t \div 10 ELSE -((-t) \div 10)

\* fmt.Sprintf("%.10f", x)
Sprintf10(t) ==
  LET a == IF t >= 0 THEN t ELSE -t
  IN (IF t < 0 THEN "-" ELSE "") \o ToString(a \div 10) \o "."
       \o ToString(a % 10) \o "000000000"

\* json.Unmarshal([]byte(s), &parsed): the tree decoded from the text, or
\* <<"fail", 0>> when the text is not JSON.
JSONParse(s) ==
  CASE s = "{}" -> <<"map", <<>>>>
    [] s = "[]" -> <<"arr", <<>>>>
    [] s = "null" -> VNull
    [] s = "{\"age\":2}" -> <<"map", [k \in {"age"} |-> VFloat(20)]>>
    [] OTHER -> <<"fail", 0>>

\* json.Marshal followed by json.Unmarshal into interface{}: every number
\* comes back a float64 and every map and slice a new object.
RECURSIVE Normalize(_)
Normalize(t) ==
  CASE t[1] = "int" -> VFloat(t[2] * 10)
    [] t[1] \in {"map", "arr"} -> <<t[1], [k \in DOMAIN t[2] |-> Normalize(t[2][k])]>>
    [] OTHER -> t

(***************************************************************************)
(* Errors: <<kind, field, detail, cause>>                                  *)
(***************************************************************************)
NoErr == <<>>
Err(kind, field, detail, cause) == <<kind, field, detail, cause>>
ErrMissing(name, md) == Err("missing", name, md, NoErr)
ErrType(name, want) == Err("type", name, want, NoErr)
ErrRule(tag) == Err("rule", "", tag, NoErr)
ErrValidation(name, cause) == Err("validation", name, "", cause)

\* Mutant: the entries compared without trimming.
IsRequired_Untrimmed(f, md) ==
  \E i \in 1..Len(f.RequiredOn) : f.RequiredOn[i] = md

\* Mutant: a field with any required-on entry is mandatory on every mode.
IsRequired_AnyMode(f, md) == Len(f.RequiredOn) > 0

\* The loop at the head of each field: is the field mandatory on this mode.
IsRequired(f, md) ==
  \E i \in 1..Len(f.RequiredOn) : TrimSpace(f.RequiredOn[i]) = md

\* Outcome of one field (or of a whole nested call):
\* st is "ok", "err" or "panic"; h the heap afterwards; v the value produced.
Ok(h, v) == [st |-> "ok", h |-> h, v |-> v, err |-> NoErr]
Fail(h, e) == [st |-> "err", h |-> h, v |-> VNull, err |-> e]
Panic(h) == [st |-> "panic", h |-> h, v |-> VNull, err |-> NoErr]
Skip(h) == [st |-> "skip", h |-> h, v |-> VNull, err |-> NoErr]

\* Mutant: the undeclared keys are dropped.
Passthrough_Dropped(h, src, dst) == h

\* for k, v := range src { if _, ok := dst[k]; !ok { dst[k] = v } }
Passthrough(h, src, dst) ==
  LET s == h[src][2]
      d == h[dst][2]
  IN [h EXCEPT ![dst] = MapObj([k \in (DOMAIN d) \cup (DOMAIN s) |->
                                IF k \in DOMAIN d THEN d[k] ELSE s[k]])]

(***************************************************************************)
(* validateJSON (params.go:462-529): the nested validation.  VJField is    *)
(* one iteration of its field loop on the re-decoded map `parsed`.         *)
(***************************************************************************)
RECURSIVE validateJSON(_, _, _, _), VJLoop(_, _, _, _, _, _), VJField(_, _, _, _)

VJField(f, parsed, md, h) ==
  IF f.Name \notin DOMAIN h[parsed][2]
    THEN IF IsRequired(f, md) THEN Fail(h, ErrMissing(f.Name, md)) ELSE Skip(h)
  ELSE LET val == h[parsed][2][f.Name] IN
    CASE f.Type = "string" ->
           IF Kind(val) # "str" THEN Fail(h, ErrType(f.Name, "string"))
           ELSE IF f.Validate # "" /\ RuleFails(val, f.Validate)
             THEN Fail(h, ErrValidation(f.Name, ErrRule(f.Validate)))
           ELSE Ok(h, val)
      [] f.Type = "integer" ->
           CASE Kind(val) = "float" -> Ok(h, VInt(Trunc(val[2])))
             [] Kind(val) = "int" -> Ok(h, val)
             [] OTHER -> Fail(h, ErrType(f.Name, "integer"))
      [] f.Type = "json" ->
           IF f.Schema # NilSchema
             THEN IF ~IsMap(h, val) THEN Panic(h)   \* val.(map[string]interface{})
                  ELSE LET n == validateJSON(f.Schema, val, md, h) IN
                       IF n.st = "err"
                         THEN Fail(n.h, ErrValidation(f.Name, n.err))
                         ELSE n
             ELSE Ok(h, val)
      [] OTHER -> Ok(h, val)

VJLoop(fields, i, parsed, o, md, h) ==
  IF i > Len(fields) THEN Ok(h, VRef(o))
  ELSE LET r == VJField(fields[i], parsed, md, h) IN
       CASE r.st = "ok" ->
              VJLoop(fields, i + 1, parsed, o, md, MapSet(r.h, o, fields[i].Name, r.v))
         [] r.st = "skip" -> VJLoop(fields, i + 1, parsed, o, md, r.h)
         [] OTHER -> r

\* Mutant: no marshal/unmarshal copy and no map of its own: the fields are
\* bound into the given map.
validateJSON_InPlace(sid, m, md, h) ==
  LET r == VJLoop(SchemaFields(sid), 1, m[2], m[2], md, h)
  IN IF r.st # "ok" THEN r ELSE Ok(r.h, m)

validateJSON(sid, m, md, h) ==
  LET p == Alloc(h, Normalize(Tree(h, m)))
      o == New(p.h, MapObj(<<>>))
      r == VJLoop(SchemaFields(sid), 1, p.v[2], o.v[2], md, o.h)
  IN IF r.st # "ok" THEN r
     ELSE Ok(Passthrough(r.h, p.v[2], o.v[2]), o.v)

(***************************************************************************)
(* BindAndValidate (params.go:236-432).  BindField is one iteration of the *)
(* loop over p.Fields, on the caller's map at address rawA.                *)
(***************************************************************************)
\* The validation tag applied to a value that has the right type.
Checked(f, x, h, result) ==
  IF f.Validate # "" /\ RuleFails(x, f.Validate)
    THEN Fail(h, ErrValidation(f.Name, ErrRule(f.Validate)))
    ELSE Ok(h, result)

\* Mutant: only a decoded JSON number is taken for an integer.
IntegerCase_FloatOnly(f, val, h) ==
  IF Kind(val) # "float" THEN Fail(h, ErrType(f.Name, "integer"))
  ELSE Ok(h, VInt(Trunc(val[2])))

\* Mutant: s, _ := val.(string), the failed assertion ignored.
StringLike_Unchecked(f, val, h, want) ==
  LET s == IF Kind(val) = "str" THEN val ELSE VStr("") IN Checked(f, s, h, s)

\* String, Date, DateTime, Time: a string, then the validation tag.
StringLike(f, val, h, want) ==
  IF Kind(val) # "str" THEN Fail(h, ErrType(f.Name, want))
  ELSE Checked(f, val, h, val)

IntegerCase(f, val, h) ==
  CASE Kind(val) = "float" ->
         LET i == VInt(Trunc(val[2])) IN Checked(f, i, h, i)
    [] Kind(val) = "int" -> Ok(h, val)
    [] OTHER -> Fail(h, ErrType(f.Name, "integer"))

FloatCase(f, val, h) ==
  IF Kind(val) # "float" THEN Fail(h, ErrType(f.Name, "float"))
  ELSE Checked(f, val, h, val)

BigDecimalCase(f, val, h) ==
  CASE Kind(val) = "str" -> Checked(f, val, h, val)
    [] Kind(val) = "float" -> Ok(h, VStr(Sprintf10(val[2])))
    [] OTHER -> Fail(h, ErrType(f.Name, "bigdecimal (string or float)"))

NumericCase(f, val, h) ==
  IF Kind(val) \in {"float", "str"} THEN Checked(f, val, h, val)
  ELSE Fail(h, ErrType(f.Name, "numeric (float or string)"))

BooleanCase(f, val, h) ==
  IF Kind(val) # "bool" THEN Fail(h, ErrType(f.Name, "boolean"))
  ELSE Ok(h, val)

JSONCase(f, val, md, h) ==
  CASE IsMap(h, val) ->
         IF f.Schema # NilSchema
           THEN LET n == validateJSON(f.Schema, val, md, h) IN
                IF n.st = "err" THEN Fail(n.h, ErrValidation(f.Name, n.err))
                ELSE n
           ELSE Ok(h, val)
    [] IsArr(h, val) -> Ok(h, val)
    [] Kind(val) = "str" ->
         LET t == JSONParse(val[2]) IN
         IF t[1] = "fail" THEN Fail(h, Err("badjson", f.Name, "valid JSON", NoErr))
         ELSE LET a == Alloc(h, t) IN Ok(a.h, a.v)
    [] OTHER -> Fail(h, ErrType(f.Name, "json (object, array, or json string)"))

\* The loop over the elements of a slice of objects; arr collects the results.
RECURSIVE SliceElems(_, _, _, _, _, _)
SliceElems(f, svals, i, arr, md, h) ==
  IF i > Len(svals) THEN New(h, ArrObj(arr)) @@ [st |-> "ok", err |-> NoErr]
  ELSE IF ~IsMap(h, svals[i])
    THEN Fail(h, Err("element", f.Name, "object", NoErr))
  ELSE LET n == validateJSON(f.Schema, svals[i], md, h) IN
       CASE n.st = "err" -> Fail(n.h, Err("elementValidation", f.Name, "", n.err))
         [] n.st = "panic" -> n
         [] OTHER -> SliceElems(f, svals, i + 1, Append(arr, n.v), md, n.h)

\* Mutant: the elements are validated whenever a schema is set.
SliceCase_AnySchema(f, val, md, h) ==
  IF ~IsArr(h, val) THEN Fail(h, ErrType(f.Name, "array"))
  ELSE IF f.Schema # NilSchema
    THEN SliceElems(f, h[val[2]][2], 1, <<>>, md, h)
  ELSE Ok(h, val)

SliceCase(f, val, md, h) ==
  IF ~IsArr(h, val) THEN Fail(h, ErrType(f.Name, "array"))
  ELSE IF f.SliceType = "json" /\ f.Schema # NilSchema
    THEN SliceElems(f, h[val[2]][2], 1, <<>>, md, h)
  ELSE Ok(h, val)

BindField(f, rawA, md, h) ==
  IF f.Name \notin DOMAIN h[rawA][2]
    THEN IF IsRequired(f, md) THEN Fail(h, ErrMissing(f.Name, md)) ELSE Skip(h)
  ELSE LET val == h[rawA][2][f.Name] IN
    CASE f.Type = "string" -> StringLike(f, val, h, "string")
      [] f.Type = "integer" -> IntegerCase(f, val, h)
      [] f.Type = "float" -> FloatCase(f, val, h)
      [] f.Type = "bigdecimal" -> BigDecimalCase(f, val, h)
      [] f.Type = "numeric" -> NumericCase(f, val, h)
      [] f.Type = "date" -> StringLike(f, val, h, "date string")
      [] f.Type = "datetime" -> StringLike(f, val, h, "datetime string")
      [] f.Type = "time" -> StringLike(f, val, h, "time string")
      [] f.Type = "boolean" -> BooleanCase(f, val, h)
      [] f.Type = "json" -> JSONCase(f, val, md, h)
      [] f.Type = "slice" -> SliceCase(f, val, md, h)
      [] OTHER -> Ok(h, val)

(***************************************************************************)
(* Inputs: the schemas a builder chain can produce, the decoded JSON       *)
(* inputs, the modes.                                                      *)
(***************************************************************************)
NameDescs ==
  { Param("name", "string", "min=3", <<"create">>, NilSchema, ""),
    Param("name", "string", "", <<" update", " create ">>, NilSchema, ""),
    Param("name", "date", "", <<>>, NilSchema, ""),
    Param("name", "datetime", "min=3", <<>>, NilSchema, ""),
    Param("name", "time", "", <<"create">>, NilSchema, "") }

AgeDescs ==
  { Param("age", "integer", "min=3", <<>>, NilSchema, ""),
    Param("age", "integer", "", <<"admin", "create">>, NilSchema, ""),
    Param("age", "float", "min=3", <<>>, NilSchema, ""),
    Param("age", "numeric", "min=3", <<>>, NilSchema, ""),
    Param("age", "bigdecimal", "min=3", <<>>, NilSchema, ""),
    Param("age", "boolean", "", <<>>, NilSchema, ""),
    Param("age", "", "", <<>>, NilSchema, "") }

DataDescs ==
  { Param("data", "json", "", <<>>, NilSchema, ""),
    Param("data", "json", "", <<"create">>, "user", ""),
    Param("data", "slice", "", <<>>, NilSchema, ""),
    Param("data", "slice", "", <<>>, "user", "json"),
    Param("data", "slice", "", <<>>, "user", "integer") }

Descs == NameDescs \cup AgeDescs \cup DataDescs

\* The descriptors that also occur in two-field schemas.
PairDescs ==
  { d \in Descs : \/ d.Type \in {"string", "integer"}
                  \/ d.Schema # NilSchema /\ d.SliceType # "integer" }

Schemas ==
  { <<d>> : d \in Descs }
    \cup { s \in { <<a, b>> : a \in PairDescs, b \in PairDescs } :
             s[1].Name # s[2].Name }

Modes == {"create", " update"}

TMap(f) == <<"map", f>>
TArr(a) == <<"arr", a>>

Address == TMap([k \in {"city"} |-> VStr("Rome")])
UserOk ==
  TMap([k \in {"name", "age", "profile"} |->
         CASE k = "name" -> VStr("John") [] k = "age" -> VFloat(59) [] OTHER -> Address])
UserBad == TMap([k \in {"age"} |-> VStr("Al")])
UserDeep == TMap([k \in {"name", "profile"} |-> VStr("John")])

Elems == {UserOk, UserBad, UserDeep, VStr("John")}

Arrays == UNION { [1..n -> Elems] : n \in 0..MaxArrLen }

Absent == <<"absent", 0>>

NameVals == {Absent, VStr("John"), VStr("Al"), VNull}
AgeVals == {Absent, VFloat(50), VFloat(59), VFloat(-59), VInt(2), VStr("Al"), VNull, VBool(TRUE)}
DataVals == {Absent, VNull, VStr("{}"), VStr("oops"), VStr("{\"age\":2}"),
             UserOk, UserBad, UserDeep} \cup { TArr(a) : a \in Arrays }
ExtraVals == {Absent, TMap([k \in {"name"} |-> VStr("John")])}

ValsOf(k) ==
  CASE k = "name" -> NameVals
    [] k = "age" -> AgeVals
    [] k = "data" -> DataVals
    [] OTHER -> ExtraVals

\* The input maps for a schema: a value or no entry for each declared name,
\* and an undeclared key "extra" or not.
FieldNames(sch) == { sch[i].Name : i \in 1..Len(sch) }

RECURSIVE RawMaps(_, _)
RawMaps(ks, i) ==
  IF i > Len(ks) THEN {<<>>}
  ELSE LET rest == RawMaps(ks, i + 1) IN
       rest \cup { (ks[i] :> v) @@ m : v \in ValsOf(ks[i]) \ {Absent}, m \in rest }

RawTrees(sch) ==
  { TMap(m) : m \in RawMaps(KeySeq(FieldNames(sch) \cup {"extra"}), 1) }

(***************************************************************************)
(* The caller: binds one input ncalls times on one schema and mode.        *)
(***************************************************************************)
Result(st, o, e, i, h) ==
  [st |-> st, out |-> o, err |-> e, idx |-> i,
   tree |-> IF st = "ok" THEN Tree(h, o) ELSE VNull]

InitWith(schemas, n) ==
  /\ schema \in schemas
  /\ mode \in Modes
  /\ \E t \in RawTrees(schema) :
       LET a == Alloc(<<>>, t) IN heap = a.h /\ raw = a.v[2] /\ input = t
  /\ pc = "idle"
  /\ idx = 0
  /\ out = 0
  /\ results = <<>>
  /\ ncalls = n
  /\ obj = VNull
  /\ presenter = <<>>
  /\ options = <<>>

Init == InitWith(Schemas, 1)

\* out := Input{}
BindStart ==
  /\ pc = "idle"
  /\ Len(results) < ncalls
  /\ LET o == New(heap, MapObj(<<>>)) IN heap' = o.h /\ out' = o.v[2]
  /\ idx' = 0
  /\ pc' = "loop"
  /\ UNCHANGED <<results, bindVars, presVars>>

\* One iteration of the loop over p.Fields; a failing field ends the call.
BindStep ==
  /\ pc = "loop"
  /\ idx < Len(schema)
  /\ LET f == schema[idx + 1]
         r == BindField(f, raw, mode, heap)
     IN CASE r.st = "ok" ->
               /\ heap' = MapSet(r.h, out, f.Name, r.v)
               /\ idx' = idx + 1
               /\ UNCHANGED <<pc, out, results>>
          [] r.st = "skip" ->
               /\ idx' = idx + 1
               /\ UNCHANGED <<heap, pc, out, results>>
          [] OTHER ->
               /\ heap' = r.h
               /\ results' = Append(results, Result(r.st, VNull, r.err, idx + 1, r.h))
               /\ pc' = "idle"
               /\ idx' = 0
               /\ out' = 0
  /\ UNCHANGED <<bindVars, presVars>>

\* After the loop: the undeclared keys are copied and out is returned.
BindReturn ==
  /\ pc = "loop"
  /\ idx = Len(schema)
  /\ LET h == Passthrough(heap, raw, out) IN
       /\ heap' = h
       /\ results' = Append(results, Result("ok", VRef(out), NoErr, idx, h))
  /\ pc' = "idle"
  /\ idx' = 0
  /\ out' = 0
  /\ UNCHANGED <<bindVars, presVars>>

Next == BindStart \/ BindStep \/ BindReturn

Spec == Init /\ [][Next]_vars

(***************************************************************************)
(* Binding repeated: the caller binds the same input MaxCalls times and    *)
(* then writes into a map or slice it reaches from the first output.       *)
(***************************************************************************)
RepeatSchemas == { <<d>> : d \in DataDescs \cup AgeDescs }

InitRepeat == InitWith(RepeatSchemas, MaxCalls)

\* m["name"] = "changed" on a map, s[0] = "changed" on a non-empty slice.
Mutate ==
  /\ pc = "idle"
  /\ Len(results) = ncalls
  /\ results[1].st = "ok"
  /\ \E a \in Reach(heap, results[1].out) :
       \/ /\ heap[a][1] = "map"
          /\ heap' = MapSet(heap, a, "name", VStr("changed"))
       \/ /\ heap[a][1] = "arr"
          /\ Len(heap[a][2]) > 0
          /\ heap' = [heap EXCEPT ![a] = ArrObj([heap[a][2] EXCEPT ![1] = VStr("changed")])]
  /\ pc' = "mutated"
  /\ UNCHANGED <<idx, out, results, bindVars, presVars>>

NextRepeat == Next \/ Mutate

SpecRepeat == InitRepeat /\ [][NextRepeat]_vars

(***************************************************************************)
(* Presentation (entity).  A struct value is <<"struct", fields>>, a       *)
(* pointer <<"ptr", address>> with address 0 for nil; nil maps and slices  *)
(* are their own values.  An *Entity is named by an id; "" is nil.         *)
(***************************************************************************)
NilPtr == <<"ptr", 0>>
NilMap == <<"nilmap", 0>>
NilSlice == <<"nilslice", 0>>

EntityField(name, key, fn, cond, def, pres) ==
  [Name |-> name, JSONKey |-> key, Func |-> fn, Condition |-> cond,
   Default |-> def, Presenter |-> pres]

\* address: Field("City"); Field("Zip").If(detailed).DefaultValue("n/a")
\* probe:   Field("City"); Field("Form").WithFunc(kind);
\*          Field("Zip").If(detailed).DefaultValue("n/a");
\*          Field("ByValue").If(byValue).DefaultValue(true)
\* outer:   Field("Addr").WithSchema(probe); Field("Tags").WithSchema(probe)
EntityFields(id) ==
  CASE id = "address" ->
         <<EntityField("City", "City", "", "", VNull, ""),
           EntityField("Zip", "Zip", "", "detailed", VStr("n/a"), "")>>
    [] id = "probe" ->
         <<EntityField("City", "City", "", "", VNull, ""),
           EntityField("Form", "Form", "kind", "", VNull, ""),
           EntityField("Zip", "Zip", "", "detailed", VStr("n/a"), ""),
           EntityField("ByValue", "ByValue", "", "byValue", VBool(TRUE), "")>>
    [] id = "outer" ->
         <<EntityField("Addr", "Addr", "", "", VNull, "probe"),
           EntityField("Tags", "Tags", "", "", VNull, "probe")>>
    [] OTHER -> <<>>

\* reflect.ValueOf(x), then Elem() of a pointer: the struct reached, or
\* <<"invalid", 0>> (nil pointer) or <<"other", 0>> (not a struct).
StructOf(h, x) ==
  CASE Kind(x) = "struct" -> x
    [] Kind(x) = "ptr" ->
         IF x[2] = 0 THEN <<"invalid", 0>>
         ELSE IF h[x[2]][1] = "struct" THEN h[x[2]] ELSE <<"other", 0>>
    [] OTHER -> <<"other", 0>>

\* reflect.Value.IsZero
RECURSIVE IsZero(_)
IsZero(v) ==
  \/ v \in {VStr(""), VInt(0), VFloat(0), VBool(FALSE), VNull, NilPtr, NilMap, NilSlice}
  \/ Kind(v) = "struct" /\ \A k \in DOMAIN v[2] : IsZero(v[2][k])

\* The caller's functions.  Predicates: "detailed" is
\* options["view"] == "detailed", "adult" is Age >= 18 of the object,
\* "never" is false.  Transforms: "ageNext" is Age + 1, "zero" returns 0,
\* "none" returns nil.  "byValue" is _, ok := obj.(Address) and "kind" is
\* reflect.ValueOf(obj).Kind().String(): they tell a struct from a pointer.
CondHolds(c, x, opts, h) ==
  CASE c = "detailed" -> "view" \in DOMAIN opts /\ opts["view"] = VStr("detailed")
    [] c = "adult" ->
         LET sv == StructOf(h, x) IN
         sv[1] = "struct" /\ "Age" \in DOMAIN sv[2] /\ sv[2]["Age"][2] >= 18
    [] c = "byValue" -> Kind(x) = "struct"
    [] OTHER -> FALSE

FuncResult(fn, x, h) ==
  LET sv == StructOf(h, x) IN
  CASE fn = "ageNext" /\ sv[1] = "struct" /\ "Age" \in DOMAIN sv[2] ->
         VInt(sv[2]["Age"][2] + 1)
    [] fn = "zero" -> VInt(0)
    [] fn = "kind" -> VStr(IF Kind(x) = "ptr" THEN "ptr" ELSE "struct")
    [] OTHER -> VNull

\* opts := H{}; if len(options) > 0 { opts = options[0] }
OptsOf(os) == IF Len(os) > 0 THEN os[1] ELSE <<>>

\* Mutant: the inclusion predicate is not consulted.
Excluded_Never(f, x, opts, h) == FALSE

\* f.Condition != nil && !f.Condition(obj, opts)
Excluded(f, x, opts, h) == f.Condition # "" /\ ~CondHolds(f.Condition, x, opts, h)

\* Mutant: the field's value is stored whether zero or not.
Resolve_KeepZero(f, x, h) ==
  LET sv == StructOf(h, x) IN
  IF sv[1] # "struct" THEN Panic(h)
  ELSE IF f.Name \notin DOMAIN sv[2] THEN Ok(h, f.Default)
  ELSE Ok(h, sv[2][f.Name])

\* v.FieldByName(f.Name), then the default for a missing, nil or zero field.
Resolve(f, x, h) ==
  LET sv == StructOf(h, x) IN
  IF sv[1] # "struct" THEN Panic(h)
  ELSE IF f.Name \notin DOMAIN sv[2] \/ IsZero(sv[2][f.Name]) THEN Ok(h, f.Default)
  ELSE Ok(h, sv[2][f.Name])

\* Mutant: a nil or zero return value is replaced by the default.
Transformed_Defaulted(f, x, h) ==
  IF IsZero(FuncResult(f.Func, x, h)) THEN Ok(h, f.Default)
  ELSE Ok(h, FuncResult(f.Func, x, h))

\* val = f.Func(obj)
Transformed(f, x, h) == Ok(h, FuncResult(f.Func, x, h))

RECURSIVE PresentAll(_, _, _, _), PresentLoop(_, _, _, _, _, _),
          PresentField(_, _, _, _), serializeNested(_, _, _, _),
          NestedSlice(_, _, _, _, _, _), NestedMap(_, _, _, _, _, _)

\* One iteration of the loop of Present over p.Fields.
PresentField(f, x, opts, h) ==
  IF Excluded(f, x, opts, h) THEN Skip(h)
  ELSE LET r == IF f.Func # "" THEN Transformed(f, x, h)
                ELSE Resolve(f, x, h)
       IN IF r.st = "ok" /\ f.Presenter # ""
            THEN serializeNested(r.v, f.Presenter, opts, r.h)
            ELSE r

PresentLoop(fields, i, x, opts, o, h) ==
  IF i > Len(fields) THEN Ok(h, VRef(o))
  ELSE LET r == PresentField(fields[i], x, opts, h) IN
       CASE r.st = "ok" ->
              PresentLoop(fields, i + 1, x, opts, o, MapSet(r.h, o, fields[i].JSONKey, r.v))
         [] r.st = "skip" -> PresentLoop(fields, i + 1, x, opts, o, r.h)
         [] OTHER -> r

\* Present(x, p, opts) as a whole, as serializeNested calls it.
PresentAll(x, pid, opts, h) ==
  LET o == New(h, MapObj(<<>>)) IN
  IF x = VNull THEN Ok(o.h, o.v)
  ELSE PresentLoop(EntityFields(pid), 1, x, opts, o.v[2], o.h)

\* case reflect.Slice: each item presented, a value item through a new
\* pointer to a copy of it.
NestedSlice(items, i, arr, pid, opts, h) ==
  IF i > Len(items) THEN New(h, ArrObj(arr)) @@ [st |-> "ok", err |-> NoErr]
  ELSE LET it == items[i] IN
       IF it = VNull THEN Panic(h)      \* reflect.ValueOf(nil).Type()
       ELSE LET w == IF Kind(it) = "ptr" THEN [h |-> h, v |-> it]
                     ELSE [h |-> Append(h, IF Kind(it) = "struct" THEN it
                                           ELSE <<"box", it>>),
                           v |-> <<"ptr", Len(h) + 1>>]
                r == PresentAll(w.v, pid, opts, w.h)
            IN IF r.st # "ok" THEN r
               ELSE NestedSlice(items, i + 1, Append(arr, r.v), pid, opts, r.h)

\* case reflect.Map: out := H(m) is the same map; its struct and pointer
\* values are replaced by their presentations.
NestedMap(a, ks, i, pid, opts, h) ==
  IF i > Len(ks) THEN Ok(h, VRef(a))
  ELSE LET v == h[a][2][ks[i]] IN
       IF Kind(v) \in {"struct", "ptr"}
         THEN LET r == PresentAll(v, pid, opts, h) IN
              IF r.st # "ok" THEN r
              ELSE NestedMap(a, ks, i + 1, pid, opts, MapSet(r.h, a, ks[i], r.v))
         ELSE NestedMap(a, ks, i + 1, pid, opts, h)

\* Mutant: the nested presenter is given no options.
serializeNested_NoOptions(val, pid, opts, h) ==
  CASE val = VNull -> Ok(h, VNull)
    [] IsArr(h, val) -> NestedSlice(h[val[2]][2], 1, <<>>, pid, <<>>, h)
    [] Kind(val) \in {"ptr", "struct"} -> PresentAll(val, pid, <<>>, h)
    [] IsMap(h, val) -> NestedMap(val[2], KeySeq(DOMAIN h[val[2]][2]), 1, pid, <<>>, h)
    [] OTHER -> Ok(h, val)

serializeNested(val, pid, opts, h) ==
  CASE val = VNull -> Ok(h, VNull)
    [] IsArr(h, val) -> NestedSlice(h[val[2]][2], 1, <<>>, pid, opts, h)
    [] Kind(val) \in {"ptr", "struct"} -> PresentAll(val, pid, opts, h)
    [] IsMap(h, val) -> NestedMap(val[2], KeySeq(DOMAIN h[val[2]][2]), 1, pid, opts, h)
    [] OTHER -> Ok(h, val)

(***************************************************************************)
(* Inputs of Present: objects, presenters built with the field setters,    *)
(* and the options argument.                                               *)
(***************************************************************************)
TStruct(f) == <<"struct", f>>
TPtr(f) == <<"pstruct", f>>

Rome == [k \in {"City", "Zip"} |-> IF k = "City" THEN VStr("Rome") ELSE VStr("")]
Oslo == [k \in {"City", "Zip"} |-> IF k = "City" THEN VStr("Oslo") ELSE VStr("0150")]

UserFull ==
  [k \in {"Name", "Age", "Active", "Addr", "Meta", "Tags"} |->
     CASE k = "Name" -> VStr("John")
       [] k = "Active" -> VBool(TRUE)
       [] k = "Age" -> VInt(30)
       [] k = "Addr" -> TPtr(Rome)
       [] k = "Meta" -> TMap([m \in {"home", "note"} |->
                               IF m = "home" THEN TStruct(Oslo) ELSE VStr("x")])
       [] OTHER -> TArr(<<TStruct(Rome), TStruct(Oslo)>>)]

UserZero ==
  [k \in {"Name", "Age", "Active", "Addr", "Meta", "Tags"} |->
     CASE k = "Name" -> VStr("")
       [] k = "Active" -> VBool(FALSE)
       [] k = "Age" -> VInt(0)
       [] k = "Addr" -> NilPtr
       [] k = "Meta" -> NilMap
       [] OTHER -> NilSlice]

Objects ==
  {VNull, NilPtr, VStr("John"),
   TStruct(UserFull), TPtr(UserFull), TStruct(UserZero), TPtr(UserZero)}

FieldDescs ==
  { EntityField("Name", "Name", "", "", VNull, ""),
    EntityField("Name", "full_name", "", "", VStr("Unknown"), ""),
    EntityField("Nick", "full_name", "", "never", VStr("Unknown"), ""),
    EntityField("Nick", "Nick", "", "", VStr("Unknown"), ""),
    EntityField("Age", "Age", "", "detailed", VNull, ""),
    EntityField("Age", "Age", "", "adult", VInt(18), ""),
    EntityField("Age", "Age", "ageNext", "", VInt(18), ""),
    EntityField("Age", "user_age", "none", "never", VInt(18), ""),
    EntityField("Age", "Age", "zero", "", VInt(18), ""),
    EntityField("Name", "Name", "none", "", VStr("Unknown"), ""),
    EntityField("Active", "Active", "", "", VBool(TRUE), ""),
    EntityField("Addr", "Addr", "", "", VNull, "address"),
    EntityField("Addr", "Addr", "", "detailed", VStr("Unknown"), "address"),
    EntityField("Meta", "Meta", "", "", VNull, "address"),
    EntityField("Meta", "Meta", "", "", VNull, ""),
    EntityField("Tags", "Tags", "", "", VNull, "address") }

RECURSIVE FieldLists(_)
FieldLists(n) ==
  IF n = 0 THEN {<<>>}
  ELSE FieldLists(n - 1) \cup
       { Append(p, d) : p \in {q \in FieldLists(n - 1) : Len(q) = n - 1}, d \in FieldDescs }

Presenters == FieldLists(MaxFields)

\* No options argument, H{}, H{"view": "detailed"}, H{"view": "brief"}.
OptionArgs ==
  { <<>>, << <<>> >>,
    << [k \in {"view"} |-> VStr("detailed")] >>,
    << [k \in {"view"} |-> VStr("brief")] >> }

InitPresent ==
  /\ presenter \in Presenters
  /\ options \in OptionArgs
  /\ \E t \in Objects :
       LET a == Alloc(<<>>, t) IN heap = a.h /\ obj = a.v /\ input = t
  /\ pc = "idle"
  /\ idx = 0
  /\ out = 0
  /\ results = <<>>
  /\ schema = <<>>
  /\ raw = 0
  /\ mode = ""
  /\ ncalls = 0

\* out := H{}; if obj == nil { return out }
PresentStart ==
  /\ pc = "idle"
  /\ results = <<>>
  /\ LET o == New(heap, MapObj(<<>>)) IN
       /\ heap' = o.h
       /\ IF obj = VNull
            THEN /\ results' = <<Result("ok", o.v, NoErr, 0, o.h)>>
                 /\ UNCHANGED <<pc, idx, out>>
            ELSE /\ out' = o.v[2]
                 /\ idx' = 0
                 /\ pc' = "present"
                 /\ UNCHANGED results
  /\ UNCHANGED <<bindVars, presVars>>

\* One iteration of the loop over p.Fields.
PresentStep ==
  /\ pc = "present"
  /\ idx < Len(presenter)
  /\ LET f == presenter[idx + 1]
         r == PresentField(f, obj, OptsOf(options), heap)
     IN CASE r.st = "ok" ->
               /\ heap' = MapSet(r.h, out, f.JSONKey, r.v)
               /\ idx' = idx + 1
               /\ UNCHANGED <<pc, out, results>>
          [] r.st = "skip" ->
               /\ idx' = idx + 1
               /\ UNCHANGED <<heap, pc, out, results>>
          [] OTHER ->
               /\ heap' = r.h
               /\ results' = Append(results, Result(r.st, VNull, r.err, idx + 1, r.h))
               /\ pc' = "idle"
               /\ idx' = 0
               /\ out' = 0
  /\ UNCHANGED <<bindVars, presVars>>

\* return out
PresentReturn ==
  /\ pc = "present"
  /\ idx = Len(presenter)
  /\ results' = Append(results, Result("ok", VRef(out), NoErr, idx, heap))
  /\ pc' = "idle"
  /\ idx' = 0
  /\ out' = 0
  /\ UNCHANGED <<heap, bindVars, presVars>>

NextPresent == PresentStart \/ PresentStep \/ PresentReturn

SpecPresent == InitPresent /\ [][NextPresent]_vars

(***************************************************************************)
(* PresentSlice (entity): obj is the collection argument; out is the       *)
(* address of the result slice.                                            *)
(***************************************************************************)
\* Present(x, p, opts) as a whole, for a presenter given by its field list.
PresentFields(x, fields, opts, h) ==
  LET o == New(h, MapObj(<<>>)) IN
  IF x = VNull THEN Ok(o.h, o.v)
  ELSE PresentLoop(fields, 1, x, opts, o.v[2], o.h)

\* Mutant: the elements are presented without the caller's options.
ItemOptions_Dropped(os) == <<>>

\* opts := H{}; if len(options) > 0 { opts = options[0] }; Present(item, p, opts)
ItemOptions(os) == <<OptsOf(os)>>

SliceItems == {VNull, NilPtr, TStruct(UserFull), TStruct(UserZero), TPtr(UserFull)}

RECURSIVE SlicesUpTo(_)
SlicesUpTo(n) ==
  IF n = 0 THEN {<<>>}
  ELSE SlicesUpTo(n - 1) \cup
       { Append(a, x) : a \in {b \in SlicesUpTo(n - 1) : Len(b) = n - 1}, x \in SliceItems }

\* nil, a nil slice, values that are no slice, and slices of up to MaxArrLen
\* elements.
Collections ==
  {VNull, NilSlice, VStr("John"), TStruct(UserFull)} \cup
  { TArr(a) : a \in SlicesUpTo(MaxArrLen) }

SlicePresenters ==
  { <<d>> : d \in FieldDescs } \cup
  { <<EntityField("Name", "Name", "", "", VNull, ""), d>> :
      d \in { e \in FieldDescs : e.Condition = "detailed" \/ e.Presenter # "" } }

InitSlice ==
  /\ presenter \in SlicePresenters
  /\ options \in OptionArgs
  /\ \E t \in Collections :
       LET a == Alloc(<<>>, t) IN heap = a.h /\ obj = a.v /\ input = t
  /\ pc = "idle"
  /\ idx = 0
  /\ out = 0
  /\ results = <<>>
  /\ schema = <<>>
  /\ raw = 0
  /\ mode = ""
  /\ ncalls = 0

\* slice == nil or not a slice: return []any{}; else arr := make([]any, v.Len())
SliceStart ==
  /\ pc = "idle"
  /\ results = <<>>
  /\ IF IsArr(heap, obj)
       THEN LET o == New(heap, ArrObj([i \in 1..Len(heap[obj[2]][2]) |-> VNull])) IN
            /\ heap' = o.h
            /\ out' = o.v[2]
            /\ idx' = 0
            /\ pc' = "slice"
            /\ UNCHANGED results
       ELSE LET o == New(heap, ArrObj(<<>>)) IN
            /\ heap' = o.h
            /\ results' = <<Result("ok", o.v, NoErr, 0, o.h)>>
            /\ UNCHANGED <<pc, idx, out>>
  /\ UNCHANGED <<bindVars, presVars>>

\* arr[i] = Present(item, p, opts)
SliceStep ==
  /\ pc = "slice"
  /\ idx < Len(heap[obj[2]][2])
  /\ LET item == heap[obj[2]][2][idx + 1]
         r == PresentFields(item, presenter, OptsOf(ItemOptions(options)), heap)
     IN IF r.st = "ok"
          THEN /\ heap' = [r.h EXCEPT ![out] = ArrObj([r.h[out][2] EXCEPT ![idx + 1] = r.v])]
               /\ idx' = idx + 1
               /\ UNCHANGED <<pc, out, results>>
          ELSE /\ heap' = r.h
               /\ results' = Append(results, Result(r.st, VNull, r.err, idx + 1, r.h))
               /\ pc' = "idle"
               /\ idx' = 0
               /\ out' = 0
  /\ UNCHANGED <<bindVars, presVars>>

\* return arr
SliceReturn ==
  /\ pc = "slice"
  /\ idx = Len(heap[obj[2]][2])
  /\ results' = Append(results, Result("ok", VRef(out), NoErr, idx, heap))
  /\ pc' = "idle"
  /\ idx' = 0
  /\ out' = 0
  /\ UNCHANGED <<heap, bindVars, presVars>>

NextSlice == SliceStart \/ SliceStep \/ SliceReturn

SpecSlice == InitSlice /\ [][NextSlice]_vars

(***************************************************************************)
(* Present repeated: the caller presents one object with one presenter     *)
(* MaxCalls times, each call with options of its own.                      *)
(***************************************************************************)
RepeatPresenters == SlicePresenters

InitPresentRepeat ==
  /\ presenter \in RepeatPresenters
  /\ options \in OptionArgs
  /\ \E t \in Objects :
       LET a == Alloc(<<>>, t) IN heap = a.h /\ obj = a.v /\ input = t
  /\ pc = "idle"
  /\ idx = 0
  /\ out = 0
  /\ results = <<>>
  /\ schema = <<>>
  /\ raw = 0
  /\ mode = ""
  /\ ncalls = MaxCalls

\* The next call, Present(obj, p, os...), after one that returned.
PresentAgain ==
  /\ pc = "idle"
  /\ results # <<>>
  /\ Len(results) < ncalls
  /\ results[Len(results)].st = "ok"
  /\ options' \in OptionArgs
  /\ LET o == New(heap, MapObj(<<>>)) IN
       /\ heap' = o.h
       /\ IF obj = VNull
            THEN /\ results' = Append(results, Result("ok", o.v, NoErr, 0, o.h))
                 /\ UNCHANGED <<pc, idx, out>>
            ELSE /\ out' = o.v[2]
                 /\ idx' = 0
                 /\ pc' = "present"
                 /\ UNCHANGED results
  /\ UNCHANGED <<bindVars, obj, presenter>>

NextPresentRepeat == NextPresent \/ PresentAgain

SpecPresentRepeat == InitPresentRepeat /\ [][NextPresentRepeat]_vars

(***************************************************************************)
(* BindAndValidate as a whole (params.go:236-432), for callers that do not *)
(* observe its steps.                                                      *)
(***************************************************************************)
RECURSIVE BindLoop(_, _, _, _, _, _), BindNext(_, _, _, _, _, _)
BindLoop(fields, i, rawA, o, md, h) ==
  IF i > Len(fields) THEN Ok(Passthrough(h, rawA, o), VRef(o))
  ELSE BindNext(BindField(fields[i], rawA, md, h), fields, i, rawA, o, md)
\* Mutant: a failing field is left out and the loop goes on.
BindNext_SkipFailed(r, fields, i, rawA, o, md) ==
  CASE r.st = "ok" ->
         BindLoop(fields, i + 1, rawA, o, md, MapSet(r.h, o, fields[i].Name, r.v))
    [] OTHER -> BindLoop(fields, i + 1, rawA, o, md, r.h)

BindNext(r, fields, i, rawA, o, md) ==
  CASE r.st = "ok" ->
         BindLoop(fields, i + 1, rawA, o, md, MapSet(r.h, o, fields[i].Name, r.v))
    [] r.st = "skip" -> BindLoop(fields, i + 1, rawA, o, md, r.h)
    [] OTHER -> r

BindAll(fields, rawA, md, h) ==
  BindLoop(fields, 1, rawA, Len(h) + 1, md, Append(h, MapObj(<<>>)))

(***************************************************************************)
(* Concurrent calls: MaxCalls goroutines call BindAndValidate on one       *)
(* schema and input, or Present on one presenter and object, each call     *)
(* with options of its own.  Here pc, idx, out, results and options are    *)
(* indexed by call.  A step is one loop iteration.  Go defines no outcome  *)
(* for a map written by one goroutine while another uses it: the runtime   *)
(* may stop the process (fatal error: concurrent map writes) or let the    *)
(* write through.                                                          *)
(***************************************************************************)
CallIds == 1..MaxCalls

InitConcurrent ==
  /\ pc = [p \in CallIds |-> "idle"]
  /\ idx = [p \in CallIds |-> 0]
  /\ out = [p \in CallIds |-> 0]
  /\ results = [p \in CallIds |-> <<>>]
  /\ ncalls = MaxCalls
  /\ \/ /\ schema \in RepeatSchemas
        /\ mode \in Modes
        /\ \E t \in RawTrees(schema) :
             LET a == Alloc(<<>>, t) IN heap = a.h /\ raw = a.v[2] /\ input = t
        /\ obj = VNull
        /\ presenter = <<>>
        /\ options = [p \in CallIds |-> <<>>]
     \/ /\ presenter \in RepeatPresenters
        /\ options \in [CallIds -> OptionArgs]
        /\ \E t \in Objects :
             LET a == Alloc(<<>>, t) IN heap = a.h /\ obj = a.v /\ input = t
        /\ schema = <<>>
        /\ raw = 0
        /\ mode = ""

\* The call p ends with result r.
Ends(p, r) ==
  /\ results' = [results EXCEPT ![p] = <<r>>]
  /\ pc' = [pc EXCEPT ![p] = "done"]

\* The runtime stops the process: no call returns.
Fatal ==
  /\ results' = [p \in CallIds |-> <<Result("panic", VNull, NoErr, 0, heap)>>]
  /\ pc' = [p \in CallIds |-> "done"]
  /\ UNCHANGED <<heap, idx, out>>

\* The step from heap h to heap g writes an object that existed before the
\* calls were made.
WritesShared(h, g) ==
  \E a \in 1..Len(Alloc(<<>>, input).h) : g[a] # h[a]

ConcBindStart(p) ==
  /\ raw # 0
  /\ pc[p] = "idle"
  /\ heap' = Append(heap, MapObj(<<>>))
  /\ out' = [out EXCEPT ![p] = Len(heap) + 1]
  /\ pc' = [pc EXCEPT ![p] = "loop"]
  /\ UNCHANGED <<idx, results, bindVars, presVars>>

ConcBindStep(p) ==
  /\ pc[p] = "loop"
  /\ idx[p] < Len(schema)
  /\ LET f == schema[idx[p] + 1]
         r == BindField(f, raw, mode, heap)
     IN CASE r.st = "ok" ->
               /\ heap' = MapSet(r.h, out[p], f.Name, r.v)
               /\ idx' = [idx EXCEPT ![p] = idx[p] + 1]
               /\ UNCHANGED <<pc, out, results>>
          [] r.st = "skip" ->
               /\ idx' = [idx EXCEPT ![p] = idx[p] + 1]
               /\ UNCHANGED <<heap, pc, out, results>>
          [] OTHER ->
               /\ heap' = r.h
               /\ Ends(p, Result(r.st, VNull, r.err, idx[p] + 1, r.h))
               /\ UNCHANGED <<idx, out>>
  /\ UNCHANGED <<bindVars, presVars>>

ConcBindReturn(p) ==
  /\ pc[p] = "loop"
  /\ idx[p] = Len(schema)
  /\ LET h == Passthrough(heap, raw, out[p]) IN
       /\ heap' = h
       /\ Ends(p, Result("ok", VRef(out[p]), NoErr, idx[p], h))
  /\ UNCHANGED <<idx, out, bindVars, presVars>>

ConcPresentStart(p) ==
  /\ raw = 0
  /\ pc[p] = "idle"
  /\ heap' = Append(heap, MapObj(<<>>))
  /\ IF obj = VNull
       THEN /\ Ends(p, Result("ok", VRef(Len(heap) + 1), NoErr, 0, heap'))
            /\ UNCHANGED <<idx, out>>
       ELSE /\ out' = [out EXCEPT ![p] = Len(heap) + 1]
            /\ pc' = [pc EXCEPT ![p] = "present"]
            /\ UNCHANGED <<idx, results>>
  /\ UNCHANGED <<bindVars, presVars>>

ConcPresentStep(p) ==
  /\ pc[p] = "present"
  /\ idx[p] < Len(presenter)
  /\ LET f == presenter[idx[p] + 1]
         r == PresentField(f, obj, OptsOf(options[p]), heap)
     IN \/ CASE r.st = "ok" ->
                  /\ heap' = MapSet(r.h, out[p], f.JSONKey, r.v)
                  /\ idx' = [idx EXCEPT ![p] = idx[p] + 1]
                  /\ UNCHANGED <<pc, out, results>>
             [] r.st = "skip" ->
                  /\ idx' = [idx EXCEPT ![p] = idx[p] + 1]
                  /\ UNCHANGED <<heap, pc, out, results>>
             [] OTHER ->
                  /\ heap' = r.h
                  /\ Ends(p, Result(r.st, VNull, r.err, idx[p] + 1, r.h))
                  /\ UNCHANGED <<idx, out>>
        \/ /\ WritesShared(heap, r.h)
           /\ \E q \in CallIds : q # p /\ pc[q] = "present"
           /\ Fatal
  /\ UNCHANGED <<bindVars, presVars>>

ConcPresentReturn(p) ==
  /\ pc[p] = "present"
  /\ idx[p] = Len(presenter)
  /\ Ends(p, Result("ok", VRef(out[p]), NoErr, idx[p], heap))
  /\ UNCHANGED <<heap, idx, out, bindVars, presVars>>

NextConcurrent ==
  \E p \in CallIds :
    \/ ConcBindStart(p)
    \/ ConcBindStep(p)
    \/ ConcBindReturn(p)
    \/ ConcPresentStart(p)
    \/ ConcPresentStep(p)
    \/ ConcPresentReturn(p)

SpecConcurrent == InitConcurrent /\ [][NextConcurrent]_vars

(***************************************************************************)
(* Round trip: a struct is presented and the map Present returns is bound  *)
(* with the schema that declares every output key of the presenter with    *)
(* the type of the struct field.                                           *)
(***************************************************************************)
\* struct { Name string; Age int; Active bool; Score float64 }
Profiles ==
  { [k \in {"Name", "Age", "Active", "Score"} |->
       CASE k = "Name" -> n [] k = "Age" -> a [] k = "Active" -> b [] OTHER -> x] :
      n \in {VStr("John"), VStr("")}, a \in {VInt(30), VInt(0)},
      b \in {VBool(TRUE), VBool(FALSE)}, x \in {VFloat(59), VFloat(0)} }

ProfileFields ==
  { EntityField("Name", "Name", "", "", VNull, ""),
    EntityField("Name", "Name", "", "", VStr("Unknown"), ""),
    EntityField("Age", "Age", "", "", VNull, ""),
    EntityField("Age", "Age", "", "", VInt(18), ""),
    EntityField("Active", "Active", "", "", VNull, ""),
    EntityField("Score", "Score", "", "", VNull, "") }

ProfilePresenters ==
  { <<d>> : d \in ProfileFields } \cup
  { q \in { <<a, b>> : a \in ProfileFields, b \in ProfileFields } :
      q[1].Name # q[2].Name }

\* Optional(key).String() / Integer() / Boolean() / Float()
SymmetricParam(f) ==
  Param(f.JSONKey,
        CASE f.Name = "Name" -> "string"
          [] f.Name = "Age" -> "integer"
          [] f.Name = "Active" -> "boolean"
          [] OTHER -> "float",
        "", <<>>, NilSchema, "")

InitRoundTrip ==
  /\ presenter \in ProfilePresenters
  /\ schema = [i \in DOMAIN presenter |-> SymmetricParam(presenter[i])]
  /\ options = <<>>
  /\ \E t \in {TStruct(u) : u \in Profiles} \cup {TPtr(u) : u \in Profiles} :
       LET a == Alloc(<<>>, t) IN heap = a.h /\ obj = a.v /\ input = t
  /\ pc = "idle"
  /\ idx = 0
  /\ out = 0
  /\ results = <<>>
  /\ raw = 0
  /\ mode = "create"
  /\ ncalls = 0

\* The caller passes the map Present returned to BindAndValidate.
BindPresented ==
  /\ pc = "idle"
  /\ ncalls = 0
  /\ Len(results) = 1
  /\ results[1].st = "ok"
  /\ raw' = results[1].out[2]
  /\ ncalls' = 2
  /\ UNCHANGED <<heap, pc, idx, out, results, schema, mode, input, presVars>>

NextRoundTrip == NextPresent \/ BindPresented \/ Next

SpecRoundTrip == InitRoundTrip /\ [][NextRoundTrip]_vars

(***************************************************************************)
(* Input.ToModel (params.go:181-234).  A struct field name is a sequence   *)
(* of one-character strings; the destination struct is the heap object     *)
(* <<"record", fields>>, fields a sequence of [name, val], and the type of  *)
(* a field is the kind of the value it holds.                              *)
(***************************************************************************)
UpperCase ==
  <<"A", "B", "C", "D", "E", "F", "G", "H", "I", "J", "K", "L", "M",
    "N", "O", "P", "Q", "R", "S", "T", "U", "V", "W", "X", "Y", "Z">>
LowerCase ==
  <<"a", "b", "c", "d", "e", "f", "g", "h", "i", "j", "k", "l", "m",
    "n", "o", "p", "q", "r", "s", "t", "u", "v", "w", "x", "y", "z">>

IsUpper(c) == \E i \in DOMAIN UpperCase : UpperCase[i] = c
IsLower(c) == \E i \in DOMAIN LowerCase : LowerCase[i] = c
ToLower(c) == LowerCase[CHOOSE i \in DOMAIN UpperCase : UpperCase[i] = c]

\* Mutant: an underscore before every upper-case letter but the first.
RECURSIVE SnakeFrom_EveryUpper(_, _)
SnakeFrom_EveryUpper(str, i) ==
  IF i > Len(str) THEN ""
  ELSE (IF IsUpper(str[i])
          THEN (IF i > 1 THEN "_" ELSE "") \o ToLower(str[i])
          ELSE str[i])
       \o SnakeFrom_EveryUpper(str, i + 1)

\* The loop of toSnakeCase from position i on.
RECURSIVE SnakeFrom(_, _)
SnakeFrom(str, i) ==
  IF i > Len(str) THEN ""
  ELSE (IF IsUpper(str[i])
          THEN (IF i > 1 /\ IsLower(str[i - 1]) THEN "_" ELSE "") \o ToLower(str[i])
          ELSE str[i])
       \o SnakeFrom(str, i + 1)

toSnakeCase(str) == IF str = <<>> THEN "" ELSE SnakeFrom(str, 1)

stringsEqualFold(structField, jsonKey) == toSnakeCase(structField) = jsonKey

\* reflect's FieldByNameFunc: the index of the one field the match function
\* accepts; 0 (the invalid Value) when none does or when several do.
FieldByNameFunc(fields, k) ==
  LET hits == { i \in DOMAIN fields : stringsEqualFold(fields[i].name, k) } IN
  IF Cardinality(hits) = 1 THEN CHOOSE i \in hits : TRUE ELSE 0

\* field.CanSet(): the field is exported.
CanSet(name) == IsUpper(name[1])

\* fv.Type().AssignableTo(field.Type())
AssignableTo(v, fv) == Kind(v) = Kind(fv)

\* fv.Type().ConvertibleTo(field.Type()): between numbers, and from an
\* integer to a string.
ConvertibleTo(v, fv) ==
  \/ Kind(v) \in {"int", "float"} /\ Kind(fv) \in {"int", "float"}
  \/ Kind(v) = "int" /\ Kind(fv) = "str"

\* string(rune(n)) for the integers of the inputs.
RuneString(n) == IF n = 65 THEN "A" ELSE "\t"

\* fv.Convert(field.Type())
Convert(v, fv) ==
  CASE Kind(v) = "float" /\ Kind(fv) = "int" -> VInt(Trunc(v[2]))
    [] Kind(v) = "int" /\ Kind(fv) = "float" -> VFloat(10 * v[2])
    [] Kind(v) = "int" /\ Kind(fv) = "str" -> VStr(RuneString(v[2]))
    [] OTHER -> v

\* Mutant: a nil input value resets the field to its zero value.
SetField_NilClobbers(fv, val) ==
  CASE val = VNull ->
         (CASE Kind(fv) = "str" -> VStr("") [] Kind(fv) = "int" -> VInt(0)
            [] Kind(fv) = "float" -> VFloat(0) [] OTHER -> VBool(FALSE))
    [] AssignableTo(val, fv) -> val
    [] ConvertibleTo(val, fv) -> Convert(val, fv)
    [] OTHER -> fv

\* The value of a settable field after the loop body has seen val for it.
SetField(fv, val) ==
  CASE val = VNull -> fv
    [] AssignableTo(val, fv) -> val
    [] ConvertibleTo(val, fv) -> Convert(val, fv)
    [] OTHER -> fv

\* One iteration of the loop over the input, for the key k.
ToModelKey(fields, k, val) ==
  LET i == FieldByNameFunc(fields, k) IN
  IF i = 0 THEN fields
  ELSE IF ~CanSet(fields[i].name) THEN fields
  ELSE [fields EXCEPT ![i].val = SetField(@, val)]

Fld(name, val) == [name |-> name, val |-> val]

\* struct { Name string; Age int; IsActive bool; Score float64; email string; ID int }
\* and struct { Name string; ID int; Id int }
Records ==
  { << Fld(<<"N", "a", "m", "e">>, VStr("Old")),
       Fld(<<"A", "g", "e">>, VInt(25)),
       Fld(<<"I", "s", "A", "c", "t", "i", "v", "e">>, VBool(FALSE)),
       Fld(<<"S", "c", "o", "r", "e">>, VFloat(15)),
       Fld(<<"e", "m", "a", "i", "l">>, VStr("old@x")),
       Fld(<<"I", "D">>, VInt(1)) >>,
    << Fld(<<"N", "a", "m", "e">>, VStr("Old")),
       Fld(<<"I", "D">>, VInt(1)),
       Fld(<<"I", "d">>, VInt(2)) >> }

\* The dst argument: nil, a struct passed by value, a nil pointer, a
\* pointer to an int, a pointer to a struct.
Destinations ==
  {VNull, NilPtr, <<"recval", 0>>, <<"box", VInt(1)>>} \cup
  { <<"record", r>> : r \in Records }

ModelKeys == {"name", "age", "is_active", "score", "email", "id", "Name", "extra"}
ModelVals == {VNull, VStr("New"), VInt(65), VFloat(59), VBool(TRUE)}

ModelInputs ==
  UNION { [S -> ModelVals] : S \in { T \in SUBSET ModelKeys : Cardinality(T) <= MaxKeys } }

\* input keeps the destination as it was before the call.
InitToModel ==
  /\ \E m \in ModelInputs, d \in Destinations :
       LET a == Alloc(<<>>, TMap(m)) IN
       /\ raw = a.v[2]
       /\ input = d
       /\ IF d[1] \in {"record", "box"}
            THEN heap = Append(a.h, d) /\ obj = <<"ptr", Len(a.h) + 1>>
            ELSE heap = a.h /\ obj = d
  /\ pc = "idle"
  /\ idx = 0
  /\ out = 0
  /\ results = <<>>
  /\ schema = <<>>
  /\ mode = ""
  /\ ncalls = 0
  /\ presenter = <<>>
  /\ options = <<>>

\* if v.Kind() != reflect.Ptr || v.IsNil() { panic(...) }
ToModelStart ==
  /\ pc = "idle"
  /\ results = <<>>
  /\ IF Kind(obj) = "ptr" /\ obj # NilPtr
       THEN pc' = "tomodel" /\ UNCHANGED results
       ELSE /\ results' = <<Result("panic", VNull, NoErr, 0, heap)>>
            /\ UNCHANGED pc
  /\ UNCHANGED <<heap, idx, out, bindVars, presVars>>

\* One iteration of for k, val := range i.
ToModelStep ==
  /\ pc = "tomodel"
  /\ idx < Len(KeySeq(DOMAIN heap[raw][2]))
  /\ LET k == KeySeq(DOMAIN heap[raw][2])[idx + 1] IN
       IF heap[obj[2]][1] # "record"
         THEN /\ results' = <<Result("panic", VNull, NoErr, idx + 1, heap)>>
              /\ pc' = "idle"
              /\ idx' = 0
              /\ UNCHANGED heap
         ELSE /\ heap' = [heap EXCEPT ![obj[2]] =
                           <<"record", ToModelKey(@[2], k, heap[raw][2][k])>>]
              /\ idx' = idx + 1
              /\ UNCHANGED <<pc, results>>
  /\ UNCHANGED <<out, bindVars, presVars>>

ToModelReturn ==
  /\ pc = "tomodel"
  /\ idx = Len(KeySeq(DOMAIN heap[raw][2]))
  /\ results' = <<Result("ok", VNull, NoErr, idx, heap)>>
  /\ pc' = "idle"
  /\ idx' = 0
  /\ UNCHANGED <<heap, out, bindVars, presVars>>

NextToModel == ToModelStart \/ ToModelStep \/ ToModelReturn

SpecToModel == InitToModel /\ [][NextToModel]_vars

(***************************************************************************)
(* Properties of BindAndValidate                                           *)
(***************************************************************************)
InputKeys == DOMAIN input[2]
ErrKind(e) == IF e = NoErr THEN "none" ELSE e[1]
Entries(f) == { f.RequiredOn[j] : j \in 1..Len(f.RequiredOn) }

\* The calls that have returned, and the schema positions a call examined.
Calls == 1..Len(results)
Examined(r) == 1..r.idx

C2_Passthrough ==
  \A n \in Calls :
    LET r == results[n] IN
    r.st = "ok" =>
      \A k \in InputKeys \ FieldNames(schema) :
        /\ k \in DOMAIN heap[r.out[2]][2]
        /\ heap[r.out[2]][2][k] = heap[raw][2][k]
        /\ r.tree[2][k] = input[2][k]

C2_Witness ==
  /\ Len(results) = 1
  /\ results[1].st = "ok"
  /\ "extra" \in InputKeys
  /\ Len(schema) = 2

\* C3: a call returns exactly one of an output and an error: a nil output
\* with a non-nil error when a field fails, a non-nil output with a nil
\* error otherwise.
C3_OutputXorError ==
  \A n \in Calls :
    LET r == results[n] IN
    \/ r.st = "err" /\ r.out = VNull /\ r.err # NoErr
    \/ r.st = "ok" /\ r.out # VNull /\ r.err = NoErr

C5_IntegerTruncation ==
  \A n \in Calls : \A i \in 1..Len(schema) :
    LET r == results[n]
        f == schema[i]
    IN (r.st = "ok" /\ f.Type = "integer" /\ f.Name \in InputKeys
          /\ Kind(input[2][f.Name]) = "float")
         => LET x == input[2][f.Name][2]
                b == r.tree[2][f.Name]
            IN /\ Kind(b) = "int"
               /\ x >= 0 => (10 * b[2] <= x /\ x < 10 * b[2] + 10)
               /\ x < 0 => (10 * b[2] >= x /\ x > 10 * b[2] - 10)

\* -5.9 was bound to -5.
C5_Witness ==
  /\ Len(results) = 1
  /\ results[1].st = "ok"
  /\ schema[1].Type = "integer"
  /\ "age" \in InputKeys
  /\ input[2]["age"] = VFloat(-59)
  /\ results[1].tree[2]["age"] = VInt(-5)

\* Nested validation of one element, run on its own: the outcome and the
\* tree of the value it produces.
NestedOf(sid, e) ==
  LET a == Alloc(<<>>, e)
      v == validateJSON(sid, a.v, mode, a.h)
  IN [st |-> v.st, tree |-> IF v.st = "ok" THEN Tree(v.h, v.v) ELSE VNull]

ElementOk(sid, e) == e[1] = "map" /\ NestedOf(sid, e).st = "ok"

\* C6: for an array field of structured-JSON elements with a nested schema,
\* when every element is a mapping that passes nested validation the output
\* array has the input's length and holds the validated elements in order;
\* when some element is not a mapping or fails nested validation the call
\* returns an error naming the array field.
C6_SliceOfObjects ==
  \A n \in Calls : \A i \in 1..Len(schema) :
    LET r == results[n]
        f == schema[i]
    IN (f.Type = "slice" /\ f.SliceType = "json" /\ f.Schema # NilSchema
          /\ f.Name \in InputKeys /\ input[2][f.Name][1] = "arr"
          /\ i \in Examined(r))
         => LET es == input[2][f.Name][2] IN
            IF \A j \in 1..Len(es) : ElementOk(f.Schema, es[j])
              THEN /\ ~(r.st # "ok" /\ r.idx = i)
                   /\ r.st = "ok" =>
                        /\ r.tree[2][f.Name][1] = "arr"
                        /\ Len(r.tree[2][f.Name][2]) = Len(es)
                        /\ \A j \in 1..Len(es) :
                             r.tree[2][f.Name][2][j] = NestedOf(f.Schema, es[j]).tree
              ELSE r.idx = i /\ r.st = "err" /\ r.err[2] = f.Name

\* C7: a key present with a null value is present: for a text, integer,
\* float, boolean, date, datetime, time, structured-JSON or array field the
\* call returns the wrong-type error naming the field once the loop reaches
\* it, required or not; never the missing-required error, never an omission.
NullChecked ==
  {"string", "integer", "float", "boolean", "date", "datetime", "time", "json", "slice"}

C7_NullIsWrongType ==
  \A n \in Calls : \A i \in 1..Len(schema) :
    LET r == results[n]
        f == schema[i]
    IN (f.Type \in NullChecked /\ f.Name \in InputKeys
          /\ input[2][f.Name] = VNull /\ i \in Examined(r))
         => /\ r.idx = i
            /\ r.st = "err"
            /\ ErrKind(r.err) = "type"
            /\ r.err[2] = f.Name

\* A null for a field that is required on the mode.
C7_Witness ==
  /\ Len(results) = 1
  /\ Len(schema) = 1
  /\ schema[1].Type = "time"
  /\ mode = "create"
  /\ "name" \in InputKeys
  /\ input[2]["name"] = VNull
  /\ ErrKind(results[1].err) = "type"

\* C8: two calls on the same input, schema and mode return structurally
\* equal outputs that share no mutable state: a write through the first
\* output is not observable through a later one.
C8_NoSharedState ==
  \A n \in Calls :
    (n > 1 /\ results[1].st = "ok" /\ results[n].st = "ok")
      => /\ results[n].tree = results[1].tree
         /\ pc = "mutated" => Tree(heap, results[n].out) = results[n].tree

(***************************************************************************)
(* Properties of Present.                                                  *)
(***************************************************************************)
\* The option map a predicate is given: the caller's, or an empty one.
Given == IF options = <<>> THEN <<>> ELSE options[1]

\* The field's inclusion predicate is unset or returns true for (obj, options).
Included(f) == f.Condition = "" \/ CondHolds(f.Condition, obj, Given, heap)

\* C9: in the map a completed Present returns for a non-nil object, the
\* output key of every field whose predicate is unset or true is present,
\* and a field whose predicate is false contributes nothing: its key is
\* absent unless another included descriptor writes the same key.  With no
\* options argument the predicate sees an empty map.
C9_InclusionPredicate ==
  \A n \in DOMAIN results :
    (results[n].st = "ok" /\ obj # VNull) =>
      \A i \in DOMAIN presenter :
        LET k    == presenter[i].JSONKey
            keys == DOMAIN results[n].tree[2]
        IN IF Included(presenter[i]) THEN k \in keys
           ELSE k \in keys =>
                  \E j \in DOMAIN presenter :
                    j # i /\ presenter[j].JSONKey = k /\ Included(presenter[j])

\* Options omitted: a field testing options["view"] is left out while an
\* unconditional field of the same presenter is rendered.
C9_Witness ==
  /\ results # <<>> /\ results[1].st = "ok"
  /\ options = <<>>
  /\ \E i, j \in DOMAIN presenter :
       /\ presenter[i].Condition = "detailed"
       /\ presenter[i].JSONKey \notin DOMAIN results[1].tree[2]
       /\ presenter[j].Condition = ""
       /\ presenter[j].JSONKey \in DOMAIN results[1].tree[2]

\* Zero values of the field types: integer 0, float 0, "", false, nil
\* pointer, nil map, nil slice.
ZeroValues == {VInt(0), VFloat(0), VStr(""), VBool(FALSE), NilPtr, NilMap, NilSlice}

\* C10: right after the loop has handled an included field that has no
\* transform function, the output key holds the descriptor's default when
\* the struct has no such field or the field is a nil pointer or a zero
\* value, and otherwise (no nested presenter) the field's actual value.
C10_DefaultPolicy ==
  (pc = "present" /\ idx >= 1) =>
    LET f      == presenter[idx]
        sv     == StructOf(heap, obj)
        stored == heap[out][2]
    IN (f.Func = "" /\ Included(f)) =>
         /\ sv[1] = "struct"
         /\ f.JSONKey \in DOMAIN stored
         /\ IF f.Name \notin DOMAIN sv[2] \/ sv[2][f.Name] \in ZeroValues
              THEN stored[f.JSONKey] = f.Default
              ELSE f.Presenter = "" => stored[f.JSONKey] = sv[2][f.Name]

\* An empty Name rendered as the default "Unknown" under "full_name".
C10_Witness ==
  /\ pc = "present" /\ idx >= 1
  /\ presenter[idx].Name = "Name" /\ presenter[idx].Func = ""
  /\ presenter[idx].JSONKey = "full_name"
  /\ StructOf(heap, obj)[1] = "struct"
  /\ StructOf(heap, obj)[2]["Name"] = VStr("")
  /\ heap[out][2]["full_name"] = VStr("Unknown")

\* C11: right after the loop has handled an included field that has a
\* transform function, the output key holds exactly what the function
\* returns for obj: not the struct field of that name and, when the
\* function returns nil or a zero value, not the default.
C11_TransformVerbatim ==
  (pc = "present" /\ idx >= 1) =>
    LET f == presenter[idx] IN
    (f.Func # "" /\ Included(f)) =>
      /\ f.JSONKey \in DOMAIN heap[out][2]
      /\ heap[out][2][f.JSONKey] = FuncResult(f.Func, obj, heap)

\* Age 30 with a transform returning 0 and default 18: 0 is stored.
C11_Witness ==
  /\ pc = "present" /\ idx >= 1
  /\ presenter[idx].Func = "zero" /\ presenter[idx].Default = VInt(18)
  /\ StructOf(heap, obj)[1] = "struct"
  /\ StructOf(heap, obj)[2]["Age"] = VInt(30)
  /\ heap[out][2]["Age"] = VInt(0)

\* C12: for a null object, the untyped nil or a nil pointer, Present
\* returns an empty map and does not fail abruptly, whatever the presenter.
C12_NullObjectEmptyMap ==
  obj \in {VNull, NilPtr} =>
    \A n \in DOMAIN results :
      results[n].st = "ok" /\ DOMAIN results[n].tree[2] = {}

\* Field i is the one whose value a completed call leaves under its key.
Rendered(i) ==
  /\ Included(presenter[i])
  /\ \A j \in DOMAIN presenter :
       (j > i /\ presenter[j].JSONKey = presenter[i].JSONKey) => ~Included(presenter[j])

\* C14: when Present has returned, the object is as it was before the call
\* (every field, and the contents of every map it holds), and the map
\* returned for a map field that has a nested presenter is not the map
\* stored in the object.
C14_ObjectUnchanged ==
  \A n \in DOMAIN results :
    results[n].st = "ok" =>
      /\ Tree(heap, obj) = input
      /\ \A i \in DOMAIN presenter :
           LET f  == presenter[i]
               sv == StructOf(heap, obj)
           IN (/\ Rendered(i) /\ f.Func = "" /\ f.Presenter # ""
               /\ sv[1] = "struct" /\ f.Name \in DOMAIN sv[2]
               /\ IsMap(heap, sv[2][f.Name]))
                => heap[results[n].out[2]][2][f.JSONKey] # sv[2][f.Name]

\* C15: whenever a call of a sequence of Present calls on one object and
\* presenter has returned, its result is the one the same call gives when
\* it is the only call made: it depends on that call's options only, not
\* on the options of the calls before it.
C15_OptionsNotPersisted ==
  (pc = "idle" /\ results # <<>>) =>
    LET r     == results[Len(results)]
        m     == Alloc(<<>>, input)
        alone == PresentFields(m.v, presenter, Given, m.h)
    IN /\ r.st = alone.st
       /\ r.st = "ok" => r.tree = Tree(alone.h, alone.v)

(***************************************************************************)
(* Properties of PresentSlice.                                             *)
(***************************************************************************)
\* The heap and the argument as they were when the call was made.
Made == Alloc(<<>>, input)

\* Present(element i, presenter, options), each made on its own.
Alone(h, items) ==
  [i \in 1..Len(items) |-> PresentFields(items[i], presenter, Given, h)]

\* C13: PresentSlice returns an empty sequence for nil and for a value that
\* is no slice; for a slice of n elements it returns n maps, the i-th equal
\* to Present(element i, presenter, options) with the caller's options,
\* and fails abruptly only when Present of some element does.
C13_PresentSlice ==
  results # <<>> =>
    LET r  == results[1]
        m  == Made
        al == Alone(m.h, m.h[m.v[2]][2])
    IN IF ~IsArr(m.h, m.v)
         THEN r.st = "ok" /\ r.tree = <<"arr", <<>>>>
         ELSE IF \A i \in DOMAIN al : al[i].st = "ok"
                THEN /\ r.st = "ok"
                     /\ r.tree[1] = "arr"
                     /\ Len(r.tree[2]) = Len(al)
                     /\ \A i \in DOMAIN al : r.tree[2][i] = Tree(al[i].h, al[i].v)
                ELSE r.st = "panic"

\* Two different elements presented with options {"view": "detailed"} by a
\* presenter that has a field depending on them.
C13_Witness ==
  /\ results # <<>> /\ results[1].st = "ok"
  /\ results[1].tree[1] = "arr"
  /\ Len(results[1].tree[2]) = 2
  /\ results[1].tree[2][1] # results[1].tree[2][2]
  /\ options = << [k \in {"view"} |-> VStr("detailed")] >>
  /\ \E i \in DOMAIN presenter : presenter[i].Condition = "detailed"

(***************************************************************************)
(* Properties of concurrent calls.                                         *)
(***************************************************************************)
\* The call p made alone on the heap h.
AloneCall(p, h, x) ==
  IF raw # 0 THEN BindAll(schema, raw, mode, h)
  ELSE PresentFields(x, presenter, OptsOf(options[p]), h)

\* C16: in every interleaving of calls on one schema and input, or on one
\* presenter and object, no call writes an object that existed before the
\* calls (the state they share), and every call that has ended has the
\* result of the same call made alone.
C16_ConcurrentCalls ==
  LET m == Alloc(<<>>, input) IN
  /\ \A a \in 1..Len(m.h) : heap[a] = m.h[a]
  /\ \A p \in CallIds :
       results[p] # <<>> =>
         LET r     == results[p][1]
             alone == AloneCall(p, m.h, m.v)
         IN /\ r.st = alone.st
            /\ r.err = alone.err
            /\ r.st = "ok" => r.tree = Tree(alone.h, alone.v)

(***************************************************************************)
(* Properties of the round trip.                                           *)
(***************************************************************************)
\* Equal values, or an integer and the float of the same number.
Equivalent(a, b) ==
  \/ a = b
  \/ Kind(a) = "int" /\ Kind(b) = "float" /\ b[2] = 10 * a[2]
  \/ Kind(a) = "float" /\ Kind(b) = "int" /\ a[2] = 10 * b[2]

\* The struct field the presenter's field i reads.
FieldValue(i) == StructOf(heap, obj)[2][presenter[i].Name]

GivenKeys == DOMAIN heap[raw][2]
GivenVal(k) == heap[raw][2][k]
FieldNow(i) == heap[obj[2]][2][i].val
FieldBefore(i) == input[2][i].val
IsPointer == Kind(obj) = "ptr" /\ obj # NilPtr

\* The input has no value the field i can take: no key in the field's
\* snake_case form, a null value, an unexported field, or a value whose
\* type is neither assignable nor convertible to the field's.
NothingFor(i) ==
  LET k == toSnakeCase(input[2][i].name) IN
  \/ k \notin GivenKeys
  \/ GivenVal(k) = VNull
  \/ ~CanSet(input[2][i].name)
  \/ ~(AssignableTo(GivenVal(k), FieldBefore(i)) \/ ConvertibleTo(GivenVal(k), FieldBefore(i)))

\* Another field of the destination has the same snake_case form.
Ambiguous(i) ==
  \E j \in DOMAIN input[2] :
    j # i /\ toSnakeCase(input[2][j].name) = toSnakeCase(input[2][i].name)

Converted(i) == Convert(GivenVal(toSnakeCase(input[2][i].name)), FieldBefore(i))

\* C18 as stated: the call fails abruptly exactly when dst is not a non-nil
\* pointer; otherwise a field the input has nothing for keeps its value and
\* every other field holds the converted input value.
C18_ToModelAsStated ==
  results # <<>> =>
    /\ results[1].st = "panic" <=> ~IsPointer
    /\ (results[1].st = "ok" /\ input[1] = "record") =>
         \A i \in DOMAIN input[2] :
           FieldNow(i) = IF NothingFor(i) THEN FieldBefore(i) ELSE Converted(i)

\* C18 amended: the call fails abruptly exactly when dst is not a non-nil
\* pointer, or points to a value that is no struct and the input has a key;
\* otherwise a field the input has nothing for, and a field that shares its
\* snake_case form with another field, keeps its value, and every other
\* field holds the converted input value.
C18_ToModel ==
  results # <<>> =>
    /\ results[1].st = "panic" <=>
         (~IsPointer \/ (input[1] = "box" /\ GivenKeys # {}))
    /\ (results[1].st = "ok" /\ input[1] = "record") =>
         \A i \in DOMAIN input[2] :
           FieldNow(i) = IF NothingFor(i) \/ Ambiguous(i) THEN FieldBefore(i)
                         ELSE Converted(i)

\* {"name": nil, "age": 5.9} on Name "Old", Age 25: Name kept, Age 5.
C18_Witness ==
  /\ results # <<>> /\ results[1].st = "ok"
  /\ input[1] = "record"
  /\ GivenKeys = {"name", "age"}
  /\ GivenVal("name") = VNull /\ GivenVal("age") = VFloat(59)
  /\ FieldNow(1) = VStr("Old") /\ FieldNow(2) = VInt(5)

(***************************************************************************)
(* The typed accessors of Input (params.go:108-131): a comma-ok type       *)
(* assertion on i[name]; h is the heap, i the reference to the map.        *)
(***************************************************************************)
\* v, ok := i[name].(T): ok iff the key is there and holds exactly a T.
Holds(h, i, name, kind) ==
  name \in DOMAIN h[i[2]][2] /\ Kind(h[i[2]][2][name]) = kind

\* Mutant: a stored float64 is converted by Integer.
Integer_Converting(h, i, name, def) ==
  CASE Holds(h, i, name, "int") -> h[i[2]][2][name][2]
    [] Holds(h, i, name, "float") -> Trunc(h[i[2]][2][name][2])
    [] OTHER -> def

String(h, i, name) ==
  IF Holds(h, i, name, "str") THEN h[i[2]][2][name][2] ELSE ""

Integer(h, i, name, def) ==
  IF Holds(h, i, name, "int") THEN h[i[2]][2][name][2] ELSE def

Float(h, i, name, def) ==
  IF Holds(h, i, name, "float") THEN h[i[2]][2][name][2] ELSE def

Boolean(h, i, name, def) ==
  IF Holds(h, i, name, "bool") THEN h[i[2]][2][name][2] ELSE def

\* The defaults the caller passes: ints, floats in tenths, booleans.
IntDefs == {0, 7}
FloatDefs == {0, 15}
AccessNames == {"name", "age", "data", "extra", "id"}

(***************************************************************************)
(* Accessor properties, on the output of one successful bind.              *)
(***************************************************************************)
Bound == results # <<>> /\ results[1].st = "ok"

\* The integer bind makes of a present value: a float64 truncated, an int as is.
Coerced(v) == IF Kind(v) = "float" THEN Trunc(v[2]) ELSE v[2]

\* The kind of the value stored under name in the output, "" when no key.
Stored(name) ==
  IF name \in DOMAIN heap[results[1].out[2]][2]
    THEN Kind(heap[results[1].out[2]][2][name]) ELSE ""

\* C19: after a successful bind, for a declared field present in the input,
\* Integer returns the coerced integer of an integer field whatever the
\* default, and String, Float and Boolean return the bound value of a
\* string, float and boolean field; for a key that is missing from the
\* output or holds a value of another type, each accessor returns its
\* default (String the empty string).
C19_AccessorsAgree ==
  Bound =>
    LET o == results[1].out IN
    /\ \A k \in 1..Len(schema) :
         LET f == schema[k] IN
         f.Name \in DOMAIN input[2] =>
           LET v == input[2][f.Name] IN
           /\ f.Type = "integer" =>
                \A d \in IntDefs : Integer(heap, o, f.Name, d) = Coerced(v)
           /\ f.Type = "string" => String(heap, o, f.Name) = v[2]
           /\ f.Type = "float" =>
                \A d \in FloatDefs : Float(heap, o, f.Name, d) = v[2]
           /\ f.Type = "boolean" =>
                \A d \in BOOLEAN : Boolean(heap, o, f.Name, d) = v[2]
    /\ \A n \in AccessNames :
         /\ Stored(n) # "int" => \A d \in IntDefs : Integer(heap, o, n, d) = d
         /\ Stored(n) # "str" => String(heap, o, n) = ""
         /\ Stored(n) # "float" => \A d \in FloatDefs : Float(heap, o, n, d) = d
         /\ Stored(n) # "bool" => \A d \in BOOLEAN : Boolean(heap, o, n, d) = d

\* Integer("age") on {"age": 5.9, "name": "John"}: 5 for the integer field,
\* and String("age") is empty, Integer("name", 7) is 7, Integer("id", 7) is 7.
C19_Witness ==
  /\ Bound
  /\ Len(schema) = 2
  /\ schema[1].Type = "string" /\ schema[1].Name = "name"
  /\ schema[2].Type = "integer" /\ schema[2].Name = "age"
  /\ "age" \in DOMAIN input[2] /\ input[2]["age"] = VFloat(59)
  /\ "name" \in DOMAIN input[2]
  /\ Integer(heap, results[1].out, "age", 7) = 5
  /\ String(heap, results[1].out, "name") = "John"
  /\ String(heap, results[1].out, "age") = ""
  /\ Integer(heap, results[1].out, "name", 7) = 7
  /\ Integer(heap, results[1].out, "id", 7) = 7

(***************************************************************************)
(* Nested binding: one call of BindAndValidate on a schema whose only      *)
(* field is a JSON field with a nested schema, the input a map under       *)
(* "data".                                                                 *)
(***************************************************************************)
NestedIds == {"user", "address", "measure", "flags", "ledger"}

NestedSchemas == { <<Param("data", "json", "", <<>>, s, "")>> : s \in NestedIds }

NestedVals(k) ==
  CASE k = "name" -> {VStr("John"), VStr("Al"), VFloat(59)}
    [] k = "age" -> {VFloat(59), VFloat(20), VInt(2), VStr("Al"), VBool(TRUE)}
    [] k = "profile" -> {Address, TArr(<<Address>>), TArr(<<VStr("John")>>), VStr("{}")}
    [] OTHER -> {VStr("Rome")}

RECURSIVE NestedMaps(_, _)
NestedMaps(ks, i) ==
  IF i > Len(ks) THEN {<<>>}
  ELSE LET rest == NestedMaps(ks, i + 1) IN
       rest \cup { (ks[i] :> v) @@ m : v \in NestedVals(ks[i]), m \in rest }

NestedTrees ==
  { TMap("data" :> TMap(m)) : m \in NestedMaps(<<"age", "city", "name", "profile">>, 1) }

InitNested ==
  /\ schema \in NestedSchemas
  /\ mode \in {"create", "update"}
  /\ \E t \in NestedTrees :
       LET a == Alloc(<<>>, t) IN heap = a.h /\ raw = a.v[2] /\ input = t
  /\ pc = "idle"
  /\ idx = 0
  /\ out = 0
  /\ results = <<>>
  /\ ncalls = 1
  /\ obj = VNull
  /\ presenter = <<>>
  /\ options = <<>>

SpecNested == InitNested /\ [][Next]_vars

(***************************************************************************)
(* Nested validation properties                                            *)
(***************************************************************************)
\* BindAndValidate(S, m normalized through JSON, mode), m the map under "data".
TopLevel(sid) ==
  LET a == Alloc(<<>>, Normalize(input[2]["data"]))
      r == BindAll(SchemaFields(sid), a.v[2], mode, a.h)
  IN [st |-> r.st, err |-> r.err,
      tree |-> IF r.st = "ok" THEN Tree(r.h, r.v) ELSE VNull]

SameAsTopLevel(sid) ==
  LET t == TopLevel(sid) IN
  /\ results[1].st = t.st
  /\ t.st = "ok" => results[1].tree[2]["data"] = t.tree
  /\ t.st = "err" => results[1].err = ErrValidation("data", t.err)

\* C20: the value a JSON field with nested schema S stores for a map m, or
\* the error it is rejected with, is the output or the error of
\* BindAndValidate(S, m normalized through JSON, mode), for every field type
\* of S and with the validation tags.
C20_NestedSameAsTopLevel ==
  results # <<>> => SameAsTopLevel(schema[1].Schema)

(***************************************************************************)
(* Properties of failure reporting                                         *)
(***************************************************************************)
\* The declared field i is a JSON field with a nested schema, given a map
\* whose entry for a nested JSON field with a schema of its own is no map.
NestedNonMap(i) ==
  LET f == schema[i] IN
  /\ f.Type = "json" /\ f.Schema # NilSchema
  /\ f.Name \in DOMAIN input[2]
  /\ input[2][f.Name][1] = "map"
  /\ \E k \in 1..Len(SchemaFields(f.Schema)) :
       LET g == SchemaFields(f.Schema)[k] IN
       /\ g.Type = "json" /\ g.Schema # NilSchema
       /\ g.Name \in DOMAIN input[2][f.Name][2]
       /\ input[2][f.Name][2][g.Name][1] # "map"

\* C21: every call ends with an output or a returned error, never abruptly;
\* a value that is no mapping, given for a JSON field with a schema inside a
\* nested schema, ends the call with a returned error once that field is
\* examined.
C21_FailuresAreErrors ==
  \A n \in DOMAIN results :
    /\ results[n].st \in {"ok", "err"}
    /\ \A i \in 1..Len(schema) :
         (NestedNonMap(i) /\ (results[n].st = "ok" \/ results[n].idx = i))
           => results[n].st = "err"

(***************************************************************************)
(* Properties of error precedence                                          *)
(***************************************************************************)
\* What each declared field yields on the input, taken by itself.
Alone22 ==
  LET a == Alloc(<<>>, input) IN
  [i \in 1..Len(schema) |-> BindField(schema[i], a.v[2], mode, a.h)]

Failing(al) == { i \in DOMAIN al : al[i].st \notin {"ok", "skip"} }

First(F) == CHOOSE i \in F : \A j \in F : i <= j

Reversed(sch) == [i \in 1..Len(sch) |-> sch[Len(sch) + 1 - i]]

\* The same declarations in the opposite order, bound to the same input.
ReorderedOk ==
  LET a == Alloc(<<>>, input) IN
  BindAll(Reversed(schema), a.v[2], mode, a.h).st = "ok"

FirstWins(r, al, F) ==
  /\ r.st = "ok" <=> F = {}
  /\ F # {} =>
       /\ r.idx = First(F)
       /\ r.st = al[First(F)].st
       /\ r.err = al[First(F)].err

\* C22: when declared fields fail for the input and mode the call ends with
\* the failure of the first of them in the field list, no later field being
\* examined; when none fails the call succeeds; binding the declarations in
\* the opposite order succeeds exactly when this call does.
C22_FirstErrorWins ==
  results # <<>> =>
    LET al == Alone22 IN
    /\ \A n \in Calls : FirstWins(results[n], al, Failing(al))
    /\ results[1].st = "ok" <=> ReorderedOk

\* Two fields that each fail, with different errors: the first one's is returned.
C22_Witness ==
  /\ Len(results) = 1
  /\ Len(schema) = 2
  /\ Failing(Alone22) = {1, 2}
  /\ Alone22[1].err # Alone22[2].err
  /\ results[1].st = "err"
  /\ results[1].err = Alone22[1].err
  /\ results[1].idx = 1

(***************************************************************************)
(* Array fields: one call on a schema whose only field is an array field.  *)
(***************************************************************************)
\* Optional("data").Slice(), .Slice().Validate("min=3"), .SliceOf(Integer, user),
\* .SliceOf(String, nil), .SliceOf(JSON, nil), .SliceOf(JSON, user)
ArrayDescs ==
  { Param("data", "slice", "", <<>>, NilSchema, ""),
    Param("data", "slice", "min=3", <<>>, NilSchema, ""),
    Param("data", "slice", "", <<"create">>, "user", "integer"),
    Param("data", "slice", "", <<>>, NilSchema, "string"),
    Param("data", "slice", "", <<>>, NilSchema, "json"),
    Param("data", "slice", "", <<>>, "user", "json") }

ArraySchemas == { <<d>> : d \in ArrayDescs }

InitArray == InitWith(ArraySchemas, 1)

SpecArray == InitArray /\ [][Next]_vars

(***************************************************************************)
(* Properties of array fields                                              *)
(***************************************************************************)
\* The array field does not declare both the element type JSON and a schema.
Unchecked(f) ==
  f.Type = "slice" /\ ~(f.SliceType = "json" /\ f.Schema # NilSchema)

\* C23: an array field that does not declare both the element type JSON and
\* a nested schema, given an array, makes the call succeed with that very
\* array stored under its name, elements untouched; given a value that is no
\* array, it makes the call return the wrong-type error naming the field.
C23_ArrayUnchecked ==
  \A n \in Calls : \A i \in 1..Len(schema) :
    LET r == results[n]
        f == schema[i]
    IN (Unchecked(f) /\ f.Name \in InputKeys /\ Len(schema) = 1) =>
         IF input[2][f.Name][1] = "arr"
           THEN /\ r.st = "ok"
                /\ heap[r.out[2]][2][f.Name] = heap[raw][2][f.Name]
                /\ r.tree[2][f.Name] = input[2][f.Name]
           ELSE /\ r.st = "err"
                /\ r.err = ErrType(f.Name, "array")

\* SliceOf(Integer, user) given ["John", {"age": "Al"}]: stored as it is.
C23_Witness ==
  /\ Len(results) = 1
  /\ Len(schema) = 1
  /\ schema[1].SliceType = "integer" /\ schema[1].Schema = "user"
  /\ "data" \in InputKeys
  /\ input[2]["data"] = TArr(<<VStr("John"), UserBad>>)
  /\ results[1].st = "ok"
  /\ results[1].tree[2]["data"] = TArr(<<VStr("John"), UserBad>>)

(***************************************************************************)
(* Properties of the caller's input                                        *)
(***************************************************************************)
\* C24: when a call has returned, with an output or an error, the input map
\* and every map and array reached from it hold the keys and values they
\* held before the call.
C24_InputReadOnly ==
  results # <<>> => Tree(heap, VRef(raw)) = input

\* {"data": {"name": "John", "age": 5.9, "profile": {...}}} bound on the
\* nested schema user: the output holds the integer 5, the input still 5.9.
C24_Witness ==
  /\ Len(results) = 1
  /\ results[1].st = "ok"
  /\ Len(schema) = 1
  /\ schema[1].Type = "json" /\ schema[1].Schema = "user"
  /\ "data" \in InputKeys /\ input[2]["data"] = UserOk
  /\ results[1].tree[2]["data"][2]["age"] = VInt(5)
  /\ Tree(heap, VRef(raw))[2]["data"][2]["age"] = VFloat(59)

(***************************************************************************)
(* The schema builder (params.go:49-104).  Here schema is p.Fields,        *)
(* results holds the param of each *FieldBuilder in the order Requires and *)
(* Optional returned them, idx counts the setter calls made and out is the *)
(* handle the last setter was called on.                                   *)
(***************************************************************************)
BuildNames == {"name", "age"}
EndpointLists == {<<"create">>, <<"update", "create">>}
TypeSetters == {"string", "integer", "json"}

\* append(s, e...) on a slice that may be nil.
AppendAll(s, e) == IF s = NilSlice THEN e ELSE s \o e

\* p.Fields = append(p.Fields, fb.param)
Declare(fields, p) == Append(fields, p)

\* The first entry with the handle's name is overwritten.
updateParent(fields, p) ==
  IF \E i \in 1..Len(fields) : fields[i].Name = p.Name
    THEN LET k == CHOOSE i \in 1..Len(fields) :
                    /\ fields[i].Name = p.Name
                    /\ \A j \in 1..(i - 1) : fields[j].Name # p.Name
         IN [fields EXCEPT ![k] = p]
    ELSE fields

InitBuilder ==
  /\ schema = <<>>
  /\ results = <<>>
  /\ idx = 0
  /\ out = 0
  /\ pc = "build"
  /\ heap = <<>>
  /\ raw = 0
  /\ mode = ""
  /\ ncalls = 0
  /\ input = VNull
  /\ obj = VNull
  /\ presenter = <<>>
  /\ options = <<>>

buildFrame == <<heap, pc, raw, mode, ncalls, input, presVars>>

Requires ==
  /\ Len(results) < MaxDecls
  /\ \E n \in BuildNames :
       LET p == Param(n, "", "", <<>>, NilSchema, "") IN
       schema' = Declare(schema, p) /\ results' = Append(results, p)
  /\ UNCHANGED <<idx, out, buildFrame>>

Optional ==
  /\ Len(results) < MaxDecls
  /\ \E n \in BuildNames :
       LET p == Param(n, "", "", NilSlice, NilSchema, "") IN
       schema' = Declare(schema, p) /\ results' = Append(results, p)
  /\ UNCHANGED <<idx, out, buildFrame>>

\* The handle k after a setter: its param, and how it is to be changed.
OnParam(k, e) == [results[k] EXCEPT !.RequiredOn = AppendAll(@, e)]
TypeParam(k, t) == [results[k] EXCEPT !.Type = t]
ValidateParam(k, tag) == [results[k] EXCEPT !.Validate = tag]
SchemaParam(k, s) == [results[k] EXCEPT !.Schema = s]
SliceOfParam(k, t, s) ==
  [results[k] EXCEPT !.Type = "slice", !.SliceType = t, !.Schema = s]

On ==
  /\ idx < MaxSetters
  /\ \E k \in DOMAIN results : \E e \in EndpointLists :
       /\ results' = [results EXCEPT ![k] = OnParam(k, e)]
       /\ schema' = updateParent(schema, OnParam(k, e))
       /\ out' = k
  /\ idx' = idx + 1
  /\ UNCHANGED buildFrame

\* String(), Integer(), ..., Slice(): f.param.Type = T
TypeSetter ==
  /\ idx < MaxSetters
  /\ \E k \in DOMAIN results : \E t \in TypeSetters :
       /\ results' = [results EXCEPT ![k] = TypeParam(k, t)]
       /\ schema' = updateParent(schema, TypeParam(k, t))
       /\ out' = k
  /\ idx' = idx + 1
  /\ UNCHANGED buildFrame

Validate ==
  /\ idx < MaxSetters
  /\ \E k \in DOMAIN results :
       /\ results' = [results EXCEPT ![k] = ValidateParam(k, "min=3")]
       /\ schema' = updateParent(schema, ValidateParam(k, "min=3"))
       /\ out' = k
  /\ idx' = idx + 1
  /\ UNCHANGED buildFrame

WithSchema ==
  /\ idx < MaxSetters
  /\ \E k \in DOMAIN results :
       /\ results' = [results EXCEPT ![k] = SchemaParam(k, "user")]
       /\ schema' = updateParent(schema, SchemaParam(k, "user"))
       /\ out' = k
  /\ idx' = idx + 1
  /\ UNCHANGED buildFrame

SliceOf ==
  /\ idx < MaxSetters
  /\ \E k \in DOMAIN results : \E t \in {"json", "integer"} :
       \E s \in {"user", NilSchema} :
         /\ results' = [results EXCEPT ![k] = SliceOfParam(k, t, s)]
         /\ schema' = updateParent(schema, SliceOfParam(k, t, s))
         /\ out' = k
  /\ idx' = idx + 1
  /\ UNCHANGED buildFrame

NextBuilder ==
  Requires \/ Optional \/ On \/ TypeSetter \/ Validate \/ WithSchema \/ SliceOf

SpecBuilder == InitBuilder /\ [][NextBuilder]_vars

(***************************************************************************)
(* Properties of the builder                                               *)
(***************************************************************************)
\* C25: no two descriptors of the schema's field list have the same name.
C25_NamesUnique ==
  \A i, j \in 1..Len(schema) : schema[i].Name = schema[j].Name => i = j

\* C26: a setter call on a handle leaves every schema entry of the handle's
\* field holding the handle's configuration, and leaves the number and the
\* order of the entries and every entry of another field unchanged.
C26_SetterReflected ==
  [][idx' = idx + 1 =>
       /\ Len(schema') = Len(schema)
       /\ \A i \in 1..Len(schema) :
            /\ schema'[i].Name = schema[i].Name
            /\ schema[i].Name # results'[out'].Name => schema'[i] = schema[i]
            /\ schema[i].Name = results'[out'].Name => schema'[i] = results'[out']]_vars

(***************************************************************************)
(* ToModel key matching: one call on a pointer to a struct whose field     *)
(* names have runs of upper-case letters.                                  *)
(***************************************************************************)
\* struct { UserID int; XMLHttpRequest string; Name string; ID int }
\* and struct { Name string; ID int; Id int }
KeyRecords ==
  { << Fld(<<"U", "s", "e", "r", "I", "D">>, VInt(1)),
       Fld(<<"X", "M", "L", "H", "t", "t", "p", "R", "e", "q", "u", "e", "s", "t">>,
           VStr("Old")),
       Fld(<<"N", "a", "m", "e">>, VStr("Old")),
       Fld(<<"I", "D">>, VInt(1)) >>,
    << Fld(<<"N", "a", "m", "e">>, VStr("Old")),
       Fld(<<"I", "D">>, VInt(1)),
       Fld(<<"I", "d">>, VInt(2)) >> }

MatchKeys ==
  {"user_id", "user_i_d", "userid", "xmlhttp_request", "xml_http_request",
   "name", "Name", "id", "ID", "i_d"}

KeyInputs ==
  UNION { [S -> {VStr("New"), VInt(65)}] :
            S \in { T \in SUBSET MatchKeys : Cardinality(T) <= MaxKeys } }

InitKeys ==
  /\ \E m \in KeyInputs, r \in KeyRecords :
       LET a == Alloc(<<>>, TMap(m)) IN
       /\ raw = a.v[2]
       /\ input = <<"record", r>>
       /\ heap = Append(a.h, <<"record", r>>)
       /\ obj = <<"ptr", Len(a.h) + 1>>
  /\ pc = "idle"
  /\ idx = 0
  /\ out = 0
  /\ results = <<>>
  /\ schema = <<>>
  /\ mode = ""
  /\ ncalls = 0
  /\ presenter = <<>>
  /\ options = <<>>

SpecKeys == InitKeys /\ [][NextToModel]_vars

(***************************************************************************)
(* Properties of ToModel key matching                                      *)
(***************************************************************************)
\* The snake_case forms the field names are to have.
Wanted(name) ==
  CASE name = <<"U", "s", "e", "r", "I", "D">> -> "user_id"
    [] name = <<"X", "M", "L", "H", "t", "t", "p", "R", "e", "q", "u", "e", "s", "t">>
         -> "xmlhttp_request"
    [] name = <<"N", "a", "m", "e">> -> "name"
    [] name = <<"I", "D">> -> "id"
    [] name = <<"I", "d">> -> "id"

\* The field i is the only field of the destination with its wanted form.
OnlyOne(i) ==
  \A j \in DOMAIN input[2] :
    Wanted(input[2][j].name) = Wanted(input[2][i].name) => j = i

C27_WitnessAmbiguous ==
  /\ results # <<>> /\ results[1].st = "ok"
  /\ Len(input[2]) = 3
  /\ GivenKeys = {"Name", "id"}
  /\ GivenVal("Name") = VStr("New") /\ GivenVal("id") = VInt(65)
  /\ \A i \in 1..3 : FieldNow(i) = FieldBefore(i)

(***************************************************************************)
(* Properties of validation tags and nested schemas                        *)
(***************************************************************************)
\* Every field of the list fields that has a tag and a value in the map m
\* (a tree) holds a value the tag's rule accepts.
TagsHold(fields, m) ==
  \A k \in 1..Len(fields) :
    (fields[k].Validate # "" /\ fields[k].Name \in DOMAIN m)
      => ~RuleFails(m[fields[k].Name], fields[k].Validate)

\* C28: on success, the output value of every declared field that has a
\* validation tag and is present in the input satisfies the tag's rule, at
\* top level and in the output mapping of a JSON field with a nested schema.
C28_TagEnforced ==
  \A n \in Calls :
    LET r == results[n] IN
    r.st = "ok" =>
      /\ TagsHold(SelectSeq(schema, LAMBDA f : f.Name \in InputKeys), r.tree[2])
      /\ \A i \in 1..Len(schema) :
           LET f == schema[i] IN
           (f.Type = "json" /\ f.Schema # NilSchema /\ f.Name \in InputKeys
              /\ r.tree[2][f.Name][1] = "map")
             => TagsHold(SchemaFields(f.Schema), r.tree[2][f.Name][2])

\* The tree v is a value of the declared type of the field g.
HasType(g, v) ==
  CASE g.Type \in {"string", "date", "datetime", "time", "bigdecimal"} -> v[1] = "str"
    [] g.Type = "integer" -> v[1] = "int"
    [] g.Type = "float" -> v[1] = "float"
    [] g.Type = "numeric" -> v[1] \in {"float", "str"}
    [] g.Type = "boolean" -> v[1] = "bool"
    [] g.Type = "slice" -> v[1] = "arr"
    [] OTHER -> TRUE

\* The mapping m (a tree) has every field of the schema sid that is required
\* on the mode, and every declared field it has is of the declared type.
Conforms(sid, m) ==
  \A k \in 1..Len(SchemaFields(sid)) :
    LET g == SchemaFields(sid)[k] IN
    /\ IsRequired(g, mode) => g.Name \in DOMAIN m
    /\ g.Name \in DOMAIN m => HasType(g, m[g.Name])

\* C29: on success, an output value of a JSON field with a nested schema
\* that is a mapping conforms to that schema, whether the input held a
\* mapping or JSON text.
C29_NestedOutputConforms ==
  \A n \in Calls : \A i \in 1..Len(schema) :
    LET r == results[n]
        f == schema[i]
    IN (r.st = "ok" /\ f.Type = "json" /\ f.Schema # NilSchema
          /\ f.Name \in InputKeys /\ r.tree[2][f.Name][1] = "map")
         => Conforms(f.Schema, r.tree[2][f.Name][2])

(***************************************************************************)
(* Nested presentation: one Present call on an object whose fields hold    *)
(* addresses by value, by pointer, in slices and in a map, with presenters *)
(* whose fields all have a nested presenter.                               *)
(***************************************************************************)
\* type Owner struct { Addr *Address; Tags []Address }
OwnerOf ==
  [k \in {"Addr", "Tags"} |->
     IF k = "Addr" THEN TPtr(Rome) ELSE TArr(<<TStruct(Oslo)>>)]

\* type Company struct { HQ Address; Addr *Address; Tags []Address;
\*   Refs []*Address; Meta map[string]any; Owner Owner }
Company ==
  [k \in {"HQ", "Addr", "Tags", "Refs", "Meta", "Owner"} |->
     CASE k = "HQ" -> TStruct(Rome)
       [] k = "Addr" -> TPtr(Oslo)
       [] k = "Tags" -> TArr(<<TStruct(Rome), TStruct(Oslo)>>)
       [] k = "Refs" -> TArr(<<TPtr(Oslo), TPtr(Rome)>>)
       [] k = "Meta" -> TMap([m \in {"home", "work", "note"} |->
                               CASE m = "home" -> TStruct(Oslo)
                                 [] m = "work" -> TPtr(Rome)
                                 [] OTHER -> VStr("x")])
       [] OTHER -> TStruct(OwnerOf)]

NestObjects == {TStruct(Company), TPtr(Company)}

NestDescs ==
  { EntityField(n, n, "", "", VNull, "probe") : n \in {"HQ", "Addr", "Tags", "Refs", "Meta"} }
    \cup { EntityField("Owner", "Owner", "", "", VNull, "outer") }

RECURSIVE NestLists(_)
NestLists(n) ==
  IF n = 0 THEN {<<>>}
  ELSE NestLists(n - 1) \cup
       { Append(p, d) : p \in {q \in NestLists(n - 1) : Len(q) = n - 1}, d \in NestDescs }

InitNestedPresent ==
  /\ presenter \in NestLists(MaxFields)
  /\ options \in OptionArgs
  /\ \E t \in NestObjects :
       LET a == Alloc(<<>>, t) IN heap = a.h /\ obj = a.v /\ input = t
  /\ pc = "idle"
  /\ idx = 0
  /\ out = 0
  /\ results = <<>>
  /\ schema = <<>>
  /\ raw = 0
  /\ mode = ""
  /\ ncalls = 0

SpecNestedPresent == InitNestedPresent /\ [][NextPresent]_vars

(***************************************************************************)
(* Properties of nested presentation                                       *)
(***************************************************************************)
\* The caller's options ask for the detailed view.
Detailed == "view" \in DOMAIN Given /\ Given["view"] = VStr("detailed")

\* The form of a stored value: a struct or a pointer to one.
FormOf(v) == IF v[1] = "pstruct" THEN "ptr" ELSE "struct"

\* The output t (a tree) of the presenter probe shows that its functions
\* were given an object of the form and the caller's options.
Probed(t, form) ==
  /\ t[1] = "map"
  /\ t[2]["Form"] = VStr(form)
  /\ "ByValue" \in DOMAIN t[2] <=> form = "struct"
  /\ "Zip" \in DOMAIN t[2] <=> Detailed

\* The output t for the stored value v under the presenter probe; elems
\* gives the form in which a slice element is handed over.
ProbedValue(t, v, elems(_)) ==
  CASE v[1] \in {"struct", "pstruct"} -> Probed(t, FormOf(v))
    [] v[1] = "arr" ->
         /\ t[1] = "arr" /\ Len(t[2]) = Len(v[2])
         /\ \A j \in 1..Len(v[2]) : Probed(t[2][j], elems(v[2][j]))
    [] v[1] = "map" ->
         /\ t[1] = "map" /\ DOMAIN t[2] = DOMAIN v[2]
         /\ \A k \in DOMAIN v[2] :
              IF v[2][k][1] \in {"struct", "pstruct"}
                THEN Probed(t[2][k], FormOf(v[2][k]))
                ELSE t[2][k] = v[2][k]
    [] OTHER -> FALSE

\* Every field of the finished call, at both depths.
AllProbed(elems(_)) ==
  (results # <<>> /\ results[1].st = "ok") =>
    \A i \in 1..Len(presenter) :
      LET f == presenter[i]
          t == results[1].tree[2][f.JSONKey]
          v == input[2][f.Name]
      IN IF f.Presenter = "probe" THEN ProbedValue(t, v, elems)
         ELSE /\ ProbedValue(t[2]["Addr"], v[2]["Addr"], elems)
              /\ ProbedValue(t[2]["Tags"], v[2]["Tags"], elems)

AsPointer(v) == "ptr"

====
